---- MODULE Spec2Model ----
(***************************************************************************)
(* Realtime delivery subsystem of the messenger backend: message rows and  *)
(* their receipts, the per-user connection registry, the Redis session /   *)
(* offline store, the fan-out handlers and the connect / drain sequence.   *)
(*                                                                         *)
(* Timestamps are values of the logical clock `now`; 0 stands for NULL.    *)
(* Python None is 0 for ids as well (ids start at 1).                      *)
(***************************************************************************)
EXTENDS Integers, Sequences, FiniteSets, TLC

\* ---------------------------------------------------------------- bounds
MaxMessages == 2
MaxPublish == 3
MaxClock == 2
OfflineCap == 2

\* --------------------------------------------------------------- fixture
\* Rows of the users / chat_rooms / participants tables the realtime core
\* only reads: chat 1 has three participants, chat 2 has two (user 3 is not
\* a participant of chat 2).
Users == {1, 2, 3}
Chats == {1, 2}
participants == {<<1, 1>>, <<2, 1>>, <<3, 1>>, <<1, 2>>, <<2, 2>>}
\* Client sockets: socket ws presents the token of user ws, and socket 4 is
\* a second device of user 2.
Sockets == {1, 2, 3, 4}
SocketUser(ws) == IF ws = 4 THEN 2 ELSE ws
\* Chats whose events travel over the bus in the fan-out specification.
FanoutChats == {1}

VARIABLES
  messages,            \* messages table: id -> row
  next_id,             \* next primary key of messages (a flush consumes one)
  deliveries,          \* message_deliveries table: <<message_id, user_id>> -> delivered_at
  message_reads,       \* message_reads table: set of <<message_id, user_id>>
  now,                 \* logical clock behind datetime.utcnow()
  active_connections,  \* WebSocketManager.active_connections: user_id -> set of sockets
  websocket_to_user,   \* WebSocketManager.websocket_to_user: socket -> user_id
  websocket_ids,       \* WebSocketManager.websocket_ids (its key set)
  heartbeat_tasks,     \* WebSocketManager.heartbeat_tasks (its key set)
  sessions,            \* Redis user:sessions:{uid}
  chat_subscribers,    \* Redis chat:subscribers:{cid}
  offline,             \* Redis offline:{uid}
  bus,                 \* events published and not yet handled
  published,           \* ids published so far, in publish order
  pc,                  \* position of each socket's connection coroutine
  alive,               \* FALSE once the peer of a socket is gone (sends raise)
  pending,             \* envelopes a drain has read and not yet dispatched
  received,            \* per user: frames successfully written to a socket of the user
  drain_log,           \* per socket: <<envelope, ok>> of the current / last drain
  ret,                 \* the last value returned to a direct caller
  chat_rooms,          \* chat_rooms and participants tables: chat id -> user ids
  refresh_tokens,      \* Redis refresh:jti:{jti}: the jti that are allowlisted
  issued,              \* refresh tokens signed so far: jti -> sub
  tasks,               \* per request: the service call it is suspended in
  _listening,          \* RedisManager._listening
  _pubsub,             \* RedisManager._pubsub: "none", "subscribed" or "closed"
  _listen_loop,        \* position of the _listen_loop task
  redis_up,            \* the Redis server can be reached
  lifespan,            \* phase of the application's lifespan
  user_online,         \* Redis user:online:{uid}: the users that have the key
  _online_cache,       \* RedisManager._online_cache: user_id -> BOOLEAN
  chat_reads,          \* chat_reads table: <<chat_id, user_id>> -> last_read_message_id
  inbox,               \* per socket: client frames that no receive has taken yet
  hb_wait,             \* per socket: "idle", "pinged" or "answered"
  channel_subscriptions,  \* DynamicRedisSubscriber.channel_subscriptions
  user_subscriptions,  \* DynamicRedisSubscriber.user_subscriptions
  redis_channels       \* channels the subscriber's pubsub is subscribed to

dbVars == <<messages, next_id, deliveries, message_reads, now>>
regVars == <<active_connections, websocket_to_user, websocket_ids, heartbeat_tasks>>
redisVars == <<sessions, chat_subscribers, offline>>
busVars == <<bus, published>>
sockVars == <<pc, alive, pending, drain_log>>
svcVars == <<chat_rooms, refresh_tokens, issued, tasks>>
lsnVars == <<_listening, _pubsub, _listen_loop, redis_up, lifespan>>
presVars == <<user_online, _online_cache>>
frmVars == <<inbox, hb_wait>>
subVars == <<channel_subscriptions, user_subscriptions, redis_channels>>
instVars == <<lsnVars, presVars, chat_reads, frmVars, subVars>>
vars == <<dbVars, regVars, redisVars, busVars, sockVars, received, ret, svcVars, instVars>>

\* Two requests are served concurrently; each is idle or suspended at an
\* await inside a service call, holding the call's arguments a and b.
Requests == {1, 2}
Idle == [op |-> "idle", a |-> 0, b |-> 0]

\* --------------------------------------------------------------- helpers
Min(S) == CHOOSE x \in S : \A y \in S : x <= y

RECURSIVE SetToSeq(_)
SetToSeq(S) == IF S = {} THEN <<>> ELSE <<Min(S)>> \o SetToSeq(S \ {Min(S)})

\* A trim that keeps the oldest n instead of the newest n.
FirstN(s, n) == IF Len(s) <= n THEN s ELSE SubSeq(s, 1, n)

LastN(s, n) == IF Len(s) <= n THEN s ELSE SubSeq(s, Len(s) - n + 1, Len(s))

Tick == IF now < MaxClock THEN now + 1 ELSE now

NoRet == [op |-> "none", args |-> <<>>, val |-> 0]

Envelope(id, chat_id, sender_id) == [id |-> id, chat_id |-> chat_id, sender_id |-> sender_id]
EnvelopeOf(id) == Envelope(id, messages[id].chat_id, messages[id].sender_id)

\* ChatService.get_chat_members: user ids of the participants rows of the chat.
get_chat_members(chat_id) == SetToSeq({u \in Users : <<u, chat_id>> \in participants})

\* ChatService.is_user_in_chat
is_user_in_chat(user_id, chat_id) == <<user_id, chat_id>> \in participants

\* ChatService.get_user_chat_ids
get_user_chat_ids(user_id) == {c \in Chats : <<user_id, c>> \in participants}

\* The registry, the session store and the receive log as one value, so that
\* a loop over members can thread them through its iterations.
World ==
  [ac |-> active_connections, w2u |-> websocket_to_user, ids |-> websocket_ids,
   hb |-> heartbeat_tasks, sess |-> sessions, subs |-> chat_subscribers,
   off |-> offline, rcv |-> received]

SetWorld(W) ==
  /\ active_connections' = W.ac
  /\ websocket_to_user' = W.w2u
  /\ websocket_ids' = W.ids
  /\ heartbeat_tasks' = W.hb
  /\ sessions' = W.sess
  /\ chat_subscribers' = W.subs
  /\ offline' = W.off
  /\ received' = W.rcv

Restrict(f, D) == [x \in D |-> f[x]]

\* RedisManager.remove_user_connection: srem of the session id.
remove_user_connection(W, user_id, ws) ==
  [W EXCEPT !.sess[user_id] = @ \ {ws}]

\* RedisManager.add_user_session: sadd of the session id.
add_user_session(W, user_id, ws) ==
  [W EXCEPT !.sess[user_id] = @ \cup {ws}]

\* RedisManager.is_user_online: the key user:sessions:{uid} exists.
is_user_online(W, user_id) == W.sess[user_id] # {}

\* RedisManager.subscribe_to_chat
subscribe_to_chat(W, user_id, chat_id) ==
  [W EXCEPT !.subs[chat_id] = @ \cup {user_id}]

\* RedisManager.get_chat_subscribers
get_chat_subscribers(W, chat_id) == W.subs[chat_id]

\* store_offline_message: right-push, then trim to the newest OfflineCap.
store_offline_message(W, user_id, payload) ==
  [W EXCEPT !.off[user_id] = LastN(Append(@, payload), OfflineCap)]

\* WebSocketManager.disconnect
disconnect(W, ws) ==
  LET user_id == IF ws \in DOMAIN W.w2u THEN W.w2u[ws] ELSE 0
      has_id == ws \in W.ids
      ac1 == IF user_id # 0 /\ user_id \in DOMAIN W.ac
               THEN IF W.ac[user_id] \ {ws} = {}
                      THEN Restrict(W.ac, DOMAIN W.ac \ {user_id})
                      ELSE [W.ac EXCEPT ![user_id] = @ \ {ws}]
               ELSE W.ac
      W1 == [W EXCEPT !.hb = @ \ {ws},
                      !.ac = ac1,
                      !.w2u = Restrict(W.w2u, DOMAIN W.w2u \ {ws}),
                      !.ids = @ \ {ws}]
  IN IF user_id # 0 /\ has_id THEN remove_user_connection(W1, user_id, ws) ELSE W1

RECURSIVE disconnect_all(_, _)
disconnect_all(W, dead) ==
  IF dead = {} THEN W
  ELSE disconnect_all(disconnect(W, Min(dead)), dead \ {Min(dead)})

RECURSIVE Copies(_, _)
Copies(x, n) == IF n = 0 THEN <<>> ELSE <<x>> \o Copies(x, n - 1)

\* WebSocketManager.send_to_user: a user without a registry key makes the
\* subscript raise KeyError (the warning branch does not return); a socket
\* whose send raises is disconnected afterwards.  The method returns None.
send_to_user(W, user_id, data) ==
  IF user_id \notin DOMAIN W.ac
    THEN [w |-> W, raised |-> TRUE]
    ELSE LET connections == W.ac[user_id]
             ok == {ws \in connections : alive[ws]}
             dead_connections == connections \ ok
             W1 == [W EXCEPT !.rcv[user_id] = @ \o Copies(data, Cardinality(ok))]
         IN [w |-> disconnect_all(W1, dead_connections), raised |-> FALSE]


\* ------------------------------------------------------- message state
Stamp == Tick

\* A new Message row.  edits holds the MessageEdit rows of the message, in
\* insertion order.
NewMessage(chat_id, sender_id, delivered_at) ==
  [chat_id |-> chat_id, sender_id |-> sender_id, delivered_at |-> delivered_at,
   read_at |-> 0, read_by |-> 0,
   content |-> "a", is_edited |-> FALSE, is_deleted |-> FALSE, edits |-> <<>>]

Insert(f, k, v) == [x \in DOMAIN f \cup {k} |-> IF x = k THEN v ELSE f[x]]

\* A guard that lets every row through (the update without its WHERE clause).
guard_dropped(t) == TRUE

\* The guard of the mark-delivered update: WHERE delivered_at IS NULL.
delivered_at_is_null(delivered_at) == delivered_at = 0

\* mark_delivered writing the row whatever it holds.
mark_delivered_unguarded(message_id, user_id) ==
  LET key == <<message_id, user_id>>
      hit == key \in DOMAIN deliveries
  IN [rows |-> IF hit THEN [deliveries EXCEPT ![key] = Stamp] ELSE deliveries,
      changed |-> hit]

\* MessageService.mark_delivered(message_id, user_id, db): guarded update of
\* the MessageDelivery row; the new table and whether a row changed.
mark_delivered(message_id, user_id) ==
  LET key == <<message_id, user_id>>
      hit == key \in DOMAIN deliveries /\ delivered_at_is_null(deliveries[key])
  IN [rows |-> IF hit THEN [deliveries EXCEPT ![key] = Stamp] ELSE deliveries,
      changed |-> hit]

\* MessageService.mark_as_delivered(message_id, db): the call DeliveryService
\* and the pub/sub listener make; it names no recipient, so it can only
\* stamp the message as a whole.
mark_as_delivered(message_id) ==
  LET hit == message_id \in DOMAIN messages
               /\ delivered_at_is_null(messages[message_id].delivered_at)
  IN [rows |-> IF hit THEN [messages EXCEPT ![message_id].delivered_at = Stamp]
                      ELSE messages,
      changed |-> hit]

\* MessageService.create_message: authorize, persist the message and one
\* MessageDelivery row (delivered_at NULL) per other participant.
CreateMessage(chat_id, sender_id) ==
  /\ next_id <= MaxMessages
  /\ is_user_in_chat(sender_id, chat_id)
  /\ messages' = Insert(messages, next_id, NewMessage(chat_id, sender_id, 0))
  /\ deliveries' =
       [k \in DOMAIN deliveries \cup
              {<<next_id, u>> : u \in {x \in Users : is_user_in_chat(x, chat_id)} \ {sender_id}}
          |-> IF k \in DOMAIN deliveries THEN deliveries[k] ELSE 0]
  /\ next_id' = next_id + 1
  /\ UNCHANGED <<message_reads, now>>

\* The loop of create_and_distribute_message over the members: every member,
\* the sender included, is sent to; a KeyError leaves the loop.
RECURSIVE distribute_loop(_, _, _)
distribute_loop(W, members, data) ==
  IF members = <<>> THEN [w |-> W, raised |-> FALSE]
  ELSE LET r == send_to_user(W, Head(members), data)
       IN IF r.raised THEN r ELSE distribute_loop(r.w, Tail(members), data)

\* MessageService.create_and_distribute_message: the row is built with
\* delivered_at = utcnow() and flushed, sent to every member, then committed;
\* an exception before the commit leaves nothing persisted.  No
\* MessageDelivery row is written.
CreateAndDistribute(chat_id, sender_id) ==
  /\ next_id <= MaxMessages
  /\ LET data == Envelope(next_id, chat_id, sender_id)
         r == distribute_loop(World, get_chat_members(chat_id), data)
     IN /\ SetWorld(r.w)
        /\ messages' = IF r.raised THEN messages
                       ELSE Insert(messages, next_id, NewMessage(chat_id, sender_id, Stamp))
  /\ next_id' = next_id + 1
  /\ now' = Tick
  /\ UNCHANGED <<deliveries, message_reads>>

\* A direct call of MessageService.mark_delivered.
MarkDelivered(message_id, user_id) ==
  LET r == mark_delivered(message_id, user_id)
  IN /\ deliveries' = r.rows
     /\ now' = IF r.changed THEN Tick ELSE now
     /\ UNCHANGED <<messages, next_id, message_reads>>

\* DeliveryService.mark_delivered(message_id, recipient_id): recipient_id is
\* dropped, MessageService.mark_as_delivered(message_id, db) is returned.
DeliveryServiceMarkDelivered(message_id, recipient_id) ==
  LET r == mark_as_delivered(message_id)
  IN /\ messages' = r.rows
     /\ now' = IF r.changed THEN Tick ELSE now
     /\ UNCHANGED <<next_id, deliveries, message_reads>>


\* ------------------------------------------------------------ read marks
\* ReadService.mark_read: the message must exist and the user must be a
\* member of its chat; the unique (message_id, user_id) makes a second
\* insert fail.  The sender is not excluded.
mark_read(message_id, user_id) ==
  LET hit == /\ message_id \in DOMAIN messages
             /\ is_user_in_chat(user_id, messages[message_id].chat_id)
             /\ <<message_id, user_id>> \notin message_reads
  IN [reads |-> IF hit THEN message_reads \cup {<<message_id, user_id>>} ELSE message_reads,
      val |-> hit]

\* MessageService.mark_as_read: no row yet for (message, user) -> insert the
\* MessageRead row and overwrite Message.read_at.  Neither membership nor
\* the sender is looked at; a message id without a row fails the insert's
\* foreign key and rolls back.
mark_as_read(message_id, user_id) ==
  LET hit == /\ <<message_id, user_id>> \notin message_reads
             /\ message_id \in DOMAIN messages
  IN [reads |-> IF hit THEN message_reads \cup {<<message_id, user_id>>} ELSE message_reads,
      rows |-> IF hit THEN [messages EXCEPT ![message_id].read_at = Stamp,
                                            ![message_id].read_by = user_id]
                      ELSE messages,
      val |-> hit]

Max(S) == CHOOSE x \in S : \A y \in S : y <= x

\* MessageService.mark_chat_as_read: MessageRead rows for every message of
\* the chat not sent by the user and not yet read by the user; read_at of
\* the newest message of the chat is overwritten.  Membership is not
\* looked at.
mark_chat_as_read(chat_id, user_id) ==
  LET in_chat == {m \in DOMAIN messages : messages[m].chat_id = chat_id}
      unread_message_ids ==
        {m \in in_chat : messages[m].sender_id # user_id} \
        {m \in DOMAIN messages : <<m, user_id>> \in message_reads}
      last_message_id == Max(in_chat)
  IN IF unread_message_ids = {}
       THEN [reads |-> message_reads, rows |-> messages, val |-> 0]
       ELSE [reads |-> message_reads \cup {<<m, user_id>> : m \in unread_message_ids},
             rows |-> [messages EXCEPT ![last_message_id].read_at = Stamp,
                                       ![last_message_id].read_by = user_id],
             val |-> Cardinality(unread_message_ids)]

\* The guard of the batch read update: WHERE read_at IS NULL.
read_at_is_null(read_at) == read_at = 0

\* The rows the batch update of mark_messages_as_read selects.
read_batch_rows(message_ids, reader_id) ==
  {m \in message_ids \cap DOMAIN messages :
     /\ messages[m].sender_id # reader_id
     /\ is_user_in_chat(reader_id, messages[m].chat_id)
     /\ read_at_is_null(messages[m].read_at)}

\* MessageService.mark_messages_as_read: one guarded update, returns the
\* number of rows it changed.
mark_messages_as_read(message_ids, reader_id) ==
  LET hit == read_batch_rows(message_ids, reader_id)
  IN [rows |-> [m \in DOMAIN messages |->
                  IF m \in hit
                    THEN [messages[m] EXCEPT !.read_at = Stamp, !.read_by = reader_id]
                    ELSE messages[m]],
      val |-> Cardinality(hit)]

\* ---------------------------------------------------- connection lifecycle
\* pc[ws]: "closed" -> "registered" -> "online" -> "draining" -> "open" -> "closed"

Closed(ws) ==
  /\ pc' = [pc EXCEPT ![ws] = "closed"]
  /\ alive' = [alive EXCEPT ![ws] = TRUE]

\* WebSocketManager.connect, steps 1-3: connection id, accept, local maps.
ConnectRegister(ws) ==
  /\ pc[ws] = "closed"
  /\ LET user_id == SocketUser(ws)
     IN /\ websocket_ids' = websocket_ids \cup {ws}
        /\ active_connections' =
             IF user_id \in DOMAIN active_connections
               THEN [active_connections EXCEPT ![user_id] = @ \cup {ws}]
               ELSE Insert(active_connections, user_id, {ws})
        /\ websocket_to_user' = Insert(websocket_to_user, ws, user_id)
  /\ pc' = [pc EXCEPT ![ws] = "registered"]
  /\ UNCHANGED <<heartbeat_tasks, redisVars, received, alive, pending, drain_log>>

RECURSIVE subscribe_all(_, _, _)
subscribe_all(W, user_id, chats) ==
  IF chats = {} THEN W
  ELSE subscribe_all(subscribe_to_chat(W, user_id, Min(chats)), user_id, chats \ {Min(chats)})

\* WebSocketManager.send_personal: a send that raises disconnects the socket.
send_personal(W, ws) == IF alive[ws] THEN W ELSE disconnect(W, ws)

\* WebSocketManager.connect, steps 4-7: register the session in Redis,
\* subscribe the user to its chats, start the heartbeat, send the greeting.
ConnectOnline(ws) ==
  /\ pc[ws] = "registered"
  /\ LET user_id == SocketUser(ws)
         W1 == add_user_session(World, user_id, ws)
         W2 == subscribe_all(W1, user_id, get_user_chat_ids(user_id))
         W3 == [W2 EXCEPT !.hb = @ \cup {ws}]
     IN SetWorld(send_personal(W3, ws))
  /\ pc' = [pc EXCEPT ![ws] = "online"]
  /\ UNCHANGED <<alive, pending, drain_log>>

RECURSIVE Reverse(_)
Reverse(q) == IF q = <<>> THEN <<>> ELSE Append(Reverse(Tail(q)), Head(q))

\* A drain that reads the queue newest first.
DrainStartReversed(ws) ==
  /\ pc[ws] = "online"
  /\ LET user_id == SocketUser(ws)
     IN /\ pending' = [pending EXCEPT ![ws] = Reverse(offline[user_id])]
        /\ offline' = [offline EXCEPT ![user_id] = <<>>]
        /\ pc' = [pc EXCEPT ![ws] = IF offline[user_id] = <<>> THEN "open" ELSE "draining"]
  /\ drain_log' = [drain_log EXCEPT ![ws] = <<>>]
  /\ UNCHANGED <<dbVars, regVars, sessions, chat_subscribers, received, alive>>

\* A drain that reads the queue and leaves it in place.
DrainStartPeek(ws) ==
  /\ pc[ws] = "online"
  /\ pending' = [pending EXCEPT ![ws] = offline[SocketUser(ws)]]
  /\ pc' = [pc EXCEPT ![ws] = IF offline[SocketUser(ws)] = <<>> THEN "open" ELSE "draining"]
  /\ drain_log' = [drain_log EXCEPT ![ws] = <<>>]
  /\ UNCHANGED <<dbVars, regVars, redisVars, received, alive>>

\* get_and_remove_offline_messages: atomic read-and-delete of offline:{uid}.
\* First step of DeliveryManager.send_pending_messages.
DrainStart(ws) ==
  /\ pc[ws] = "online"
  /\ LET user_id == SocketUser(ws)
     IN /\ pending' = [pending EXCEPT ![ws] = offline[user_id]]
        /\ offline' = [offline EXCEPT ![user_id] = <<>>]
        /\ pc' = [pc EXCEPT ![ws] = IF offline[user_id] = <<>> THEN "open" ELSE "draining"]
  /\ drain_log' = [drain_log EXCEPT ![ws] = <<>>]
  /\ UNCHANGED <<dbVars, regVars, sessions, chat_subscribers, received, alive>>

\* A drain that only disconnects the socket when a send raised.
drain_send_dropped(W, ws, user_id, payload) == disconnect(W, ws)

\* What send_pending_messages does with an envelope whose send raised: the
\* socket is treated as not connected and the envelope is queued again.
drain_send_failed(W, ws, user_id, payload) ==
  store_offline_message(disconnect(W, ws), user_id, payload)

\* DeliveryManager.send_pending_messages, one envelope: send it on the new
\* socket and, when the send succeeded, mark (message, user) delivered.
DrainSend(ws) ==
  /\ pc[ws] = "draining"
  /\ pending[ws] # <<>>
  /\ LET user_id == SocketUser(ws)
         payload == Head(pending[ws])
         r == mark_delivered(payload.id, user_id)
     IN IF alive[ws]
          THEN /\ SetWorld([World EXCEPT !.rcv[user_id] = Append(@, payload)])
               /\ deliveries' = r.rows
               /\ now' = IF r.changed THEN Tick ELSE now
               /\ drain_log' = [drain_log EXCEPT ![ws] = Append(@, <<payload, TRUE>>)]
          ELSE /\ SetWorld(drain_send_failed(World, ws, user_id, payload))
               /\ UNCHANGED <<deliveries, now>>
               /\ drain_log' = [drain_log EXCEPT ![ws] = Append(@, <<payload, FALSE>>)]
  /\ pending' = [pending EXCEPT ![ws] = Tail(@)]
  /\ pc' = [pc EXCEPT ![ws] = IF Tail(pending[ws]) = <<>> THEN "open" ELSE "draining"]
  /\ UNCHANGED <<messages, next_id, message_reads, alive>>

\* The endpoint's receive loop ends (client close, transport error, or the
\* socket is no longer in websocket_to_user) and calls disconnect.
CloseSocket(ws) ==
  /\ pc[ws] = "open"
  /\ SetWorld(disconnect(World, ws))
  /\ Closed(ws)
  /\ UNCHANGED <<pending, drain_log>>

\* WebSocketManager._heartbeat: the ping of a socket whose peer is gone
\* raises or gets no pong; the loop breaks and disconnects the socket.
Heartbeat(ws) ==
  /\ ws \in heartbeat_tasks
  /\ ~alive[ws]
  /\ SetWorld(disconnect(World, ws))
  /\ UNCHANGED <<pc, alive, pending, drain_log>>

\* The peer of a socket goes away without the server noticing.
KillSocket(ws) ==
  /\ pc[ws] # "closed"
  /\ alive[ws]
  /\ alive' = [alive EXCEPT ![ws] = FALSE]
  /\ UNCHANGED <<regVars, redisVars, received, pc, pending, drain_log>>

\* ------------------------------------------------------------- fan-out
\* A publisher puts the event of a persisted message on the bus: over
\* RabbitMQ (routing key message.created) or over Redis pub/sub
\* (RedisManager.publish_chat_message).  Publishes are in id order; the same
\* event may be published again.
Publish(message_id, via) ==
  /\ Len(published) < MaxPublish
  /\ message_id \in DOMAIN messages
  /\ messages[message_id].chat_id \in FanoutChats
  /\ IF published = <<>> THEN TRUE ELSE published[Len(published)] <= message_id
  /\ bus' = Append(bus, [via |-> via, data |-> EnvelopeOf(message_id)])
  /\ published' = Append(published, message_id)

\* The loop of MessageCreatedConsumer.handle over the members.
RECURSIVE consumer_loop(_, _, _)
consumer_loop(W, user_ids, payload) ==
  IF user_ids = <<>> THEN W
  ELSE LET user_id == Head(user_ids)
       IN IF user_id = payload.sender_id
            THEN consumer_loop(W, Tail(user_ids), payload)
            ELSE IF is_user_online(W, user_id)
              THEN LET r == send_to_user(W, user_id, payload)
                   IN IF r.raised THEN r.w ELSE consumer_loop(r.w, Tail(user_ids), payload)
              ELSE consumer_loop(store_offline_message(W, user_id, payload),
                                 Tail(user_ids), payload)

\* MessageCreatedConsumer.handle
HandleMessageCreated ==
  /\ bus # <<>>
  /\ Head(bus).via = "rabbit"
  /\ LET payload == Head(bus).data
     IN SetWorld(consumer_loop(World, get_chat_members(payload.chat_id), payload))
  /\ bus' = Tail(bus)
  /\ UNCHANGED published

\* RedisManager._handle_pubsub_message.  send_to_user returns None, so
\* `total_sent += sent_count` raises TypeError after the first online
\* subscriber (in the set's iteration order) was sent to; the except clause
\* ends the handler, and the mark_as_delivered call is not reached.
HandlePubsub ==
  /\ bus # <<>>
  /\ Head(bus).via = "redis"
  /\ LET data == Head(bus).data
         online == {u \in get_chat_subscribers(World, data.chat_id) : is_user_online(World, u)}
     IN IF online = {}
          THEN SetWorld(World)
          ELSE \E user_id \in online : SetWorld(send_to_user(World, user_id, data).w)
  /\ bus' = Tail(bus)
  /\ UNCHANGED published

\* ----------------------------------------------------- the specification
Init ==
  /\ messages = <<>>
  /\ next_id = 1
  /\ deliveries = <<>>
  /\ message_reads = {}
  /\ now = 0
  /\ active_connections = <<>>
  /\ websocket_to_user = <<>>
  /\ websocket_ids = {}
  /\ heartbeat_tasks = {}
  /\ sessions = [u \in Users |-> {}]
  /\ chat_subscribers = [c \in Chats |-> {}]
  /\ offline = [u \in Users |-> <<>>]
  /\ bus = <<>>
  /\ published = <<>>
  /\ pc = [ws \in Sockets |-> "closed"]
  /\ alive = [ws \in Sockets |-> TRUE]
  /\ pending = [ws \in Sockets |-> <<>>]
  /\ received = [u \in Users |-> <<>>]
  /\ drain_log = [ws \in Sockets |-> <<>>]
  /\ ret = NoRet
  /\ chat_rooms = <<>>
  /\ refresh_tokens = {}
  /\ issued = <<>>
  /\ tasks = [r \in Requests |-> Idle]
  /\ _listening = FALSE
  /\ _pubsub = "none"
  /\ _listen_loop = "none"
  /\ redis_up = TRUE
  /\ lifespan = "startup"
  /\ user_online = {}
  /\ _online_cache = <<>>
  /\ chat_reads = <<>>
  /\ inbox = [ws \in Sockets |-> <<>>]
  /\ hb_wait = [ws \in Sockets |-> "idle"]
  /\ channel_subscriptions = <<>>
  /\ user_subscriptions = <<>>
  /\ redis_channels = {}

\* The fan-out specification: user 1 sends into chat 1 (participants 1, 2
\* and 3); user 2 connects and disconnects on socket 2, user 3 stays away.
FanoutSenders == {1}
FanoutSockets == {2}

DoCreateMessage ==
  /\ UNCHANGED <<svcVars, instVars>>
  /\ \E c \in FanoutChats, s \in FanoutSenders :
       CreateMessage(c, s) /\ UNCHANGED <<regVars, redisVars, busVars, sockVars, received, ret>>

DoPublish ==
  /\ UNCHANGED <<svcVars, instVars>>
  /\ \E m \in DOMAIN messages, via \in {"rabbit", "redis"} :
       Publish(m, via) /\ UNCHANGED <<dbVars, regVars, redisVars, sockVars, received, ret>>

DoHandleMessageCreated ==
  /\ UNCHANGED <<svcVars, instVars>>
  /\ HandleMessageCreated /\ UNCHANGED <<dbVars, sockVars, ret>>

DoHandlePubsub ==
  /\ UNCHANGED <<svcVars, instVars>>
  /\ HandlePubsub /\ UNCHANGED <<dbVars, sockVars, ret>>

DoConnectRegister ==
  /\ UNCHANGED <<svcVars, instVars>>
  /\ \E ws \in FanoutSockets : ConnectRegister(ws) /\ UNCHANGED <<dbVars, busVars, ret>>

DoConnectOnline ==
  /\ UNCHANGED <<svcVars, instVars>>
  /\ \E ws \in FanoutSockets : ConnectOnline(ws) /\ UNCHANGED <<dbVars, busVars, ret>>

DoDrainStart ==
  /\ UNCHANGED <<svcVars, instVars>>
  /\ \E ws \in FanoutSockets : DrainStart(ws) /\ UNCHANGED <<busVars, ret>>

DoDrainSend ==
  /\ UNCHANGED <<svcVars, instVars>>
  /\ \E ws \in FanoutSockets : DrainSend(ws) /\ UNCHANGED <<busVars, ret>>

DoCloseSocket ==
  /\ UNCHANGED <<svcVars, instVars>>
  /\ \E ws \in FanoutSockets : CloseSocket(ws) /\ UNCHANGED <<dbVars, busVars, ret>>

DoKillSocket ==
  /\ UNCHANGED <<svcVars, instVars>>
  /\ \E ws \in FanoutSockets : KillSocket(ws) /\ UNCHANGED <<dbVars, busVars, ret>>

DoHeartbeat ==
  /\ UNCHANGED <<svcVars, instVars>>
  /\ \E ws \in FanoutSockets : Heartbeat(ws) /\ UNCHANGED <<dbVars, busVars, ret>>

Next ==
  \/ DoCreateMessage
  \/ DoPublish
  \/ DoHandleMessageCreated
  \/ DoHandlePubsub
  \/ DoConnectRegister
  \/ DoConnectOnline
  \/ DoDrainStart
  \/ DoDrainSend
  \/ DoCloseSocket
  \/ DoKillSocket
  \/ DoHeartbeat

Spec == Init /\ [][Next]_vars


\* ------------------------------------------- the message-state specifications
\* Direct calls of the message-state operations.  ret holds what the last
\* call returned when that call was one of the idempotent marks, and is
\* cleared by every other call.
Call(op, args, val) == ret' = [op |-> op, args |-> args, val |-> val]

NoCall == ret' = NoRet

\* The clock is capped: a call that would write a timestamp needs room.
ClockOk(writes) == writes => now < MaxClock

Frozen == UNCHANGED <<regVars, redisVars, busVars, sockVars, received>>

DbCreateMessage ==
  /\ UNCHANGED <<svcVars, instVars>>
  /\ \E c \in Chats, s \in FanoutSenders :
       CreateMessage(c, s) /\ NoCall /\ Frozen

DbMarkDelivered ==
  /\ UNCHANGED <<svcVars, instVars>>
  /\ \E m \in 1..MaxMessages, u \in Users :
       MarkDelivered(m, u)
         /\ ClockOk(mark_delivered(m, u).changed)
         /\ Call("mark_delivered", <<m, u>>, mark_delivered(m, u).changed) /\ Frozen

DbDeliveryServiceMarkDelivered ==
  /\ UNCHANGED <<svcVars, instVars>>
  /\ \E m \in 1..MaxMessages, u \in Users :
       DeliveryServiceMarkDelivered(m, u)
         /\ ClockOk(mark_as_delivered(m).changed)
         /\ Call("delivery_mark_delivered", <<m, u>>, mark_as_delivered(m).changed) /\ Frozen

DbMarkRead ==
  /\ UNCHANGED <<svcVars, instVars>>
  /\ \E m \in 1..MaxMessages, u \in Users :
       LET r == mark_read(m, u)
       IN /\ message_reads' = r.reads
          /\ NoCall
          /\ UNCHANGED <<messages, next_id, deliveries, now>> /\ Frozen

DbMarkAsRead ==
  /\ UNCHANGED <<svcVars, instVars>>
  /\ \E m \in 1..MaxMessages, u \in Users :
       LET r == mark_as_read(m, u)
       IN /\ message_reads' = r.reads
          /\ messages' = r.rows
          /\ ClockOk(r.val)
          /\ now' = IF r.val THEN Tick ELSE now
          /\ NoCall
          /\ UNCHANGED <<next_id, deliveries>> /\ Frozen

DbMarkChatAsRead ==
  /\ UNCHANGED <<svcVars, instVars>>
  /\ \E c \in Chats, u \in Users :
       LET r == mark_chat_as_read(c, u)
       IN /\ message_reads' = r.reads
          /\ messages' = r.rows
          /\ ClockOk(r.val > 0)
          /\ now' = IF r.val > 0 THEN Tick ELSE now
          /\ NoCall
          /\ UNCHANGED <<next_id, deliveries>> /\ Frozen

DbMarkMessagesAsRead ==
  /\ UNCHANGED <<svcVars, instVars>>
  /\ \E ids \in SUBSET (1..MaxMessages), u \in Users :
       LET r == mark_messages_as_read(ids, u)
       IN /\ messages' = r.rows
          /\ ClockOk(r.val > 0)
          /\ now' = IF r.val > 0 THEN Tick ELSE now
          /\ Call("mark_messages_as_read", <<ids, u>>, r.val)
          /\ UNCHANGED <<next_id, deliveries, message_reads>> /\ Frozen

\* Delivery marks called directly and repeatedly.
NextDelivered ==
  \/ DbCreateMessage
  \/ DbMarkDelivered
  \/ DbDeliveryServiceMarkDelivered

SpecDelivered == Init /\ [][NextDelivered]_vars

\* Every read path.
NextRead ==
  \/ DbCreateMessage
  \/ DbMarkRead
  \/ DbMarkAsRead
  \/ DbMarkChatAsRead
  \/ DbMarkMessagesAsRead

SpecRead == Init /\ [][NextRead]_vars

\* The batch read update called repeatedly.
NextBatch ==
  \/ DbCreateMessage
  \/ DbMarkMessagesAsRead

SpecBatch == Init /\ [][NextBatch]_vars

\* ------------------------------------------------- the REST specification
\* POST /messages (send_message -> create_and_distribute_message) while
\* users 1 and 2 connect and disconnect.  Nothing is queued here, so a
\* drain finds offline:{uid} empty.
RestSockets == {1, 2}

\* send_message takes the sender from the token and the chat from the
\* request body: user 1 is in both chats, user 3 is not in chat 2.
RestSenders == {1, 3}

DoCreateAndDistribute ==
  /\ UNCHANGED <<svcVars, instVars>>
  /\ \E c \in Chats, s \in RestSenders :
       CreateAndDistribute(c, s) /\ UNCHANGED <<busVars, sockVars, ret>>

RestConnectRegister ==
  /\ UNCHANGED <<svcVars, instVars>>
  /\ \E ws \in RestSockets : ConnectRegister(ws) /\ UNCHANGED <<dbVars, busVars, ret>>

RestConnectOnline ==
  /\ UNCHANGED <<svcVars, instVars>>
  /\ \E ws \in RestSockets : ConnectOnline(ws) /\ UNCHANGED <<dbVars, busVars, ret>>

RestDrainStart ==
  /\ UNCHANGED <<svcVars, instVars>>
  /\ \E ws \in RestSockets : DrainStart(ws) /\ UNCHANGED <<busVars, ret>>

RestCloseSocket ==
  /\ UNCHANGED <<svcVars, instVars>>
  /\ \E ws \in RestSockets : CloseSocket(ws) /\ UNCHANGED <<dbVars, busVars, ret>>

RestKillSocket ==
  /\ UNCHANGED <<svcVars, instVars>>
  /\ \E ws \in RestSockets : KillSocket(ws) /\ UNCHANGED <<dbVars, busVars, ret>>

RestHeartbeat ==
  /\ UNCHANGED <<svcVars, instVars>>
  /\ \E ws \in RestSockets : Heartbeat(ws) /\ UNCHANGED <<dbVars, busVars, ret>>

NextRest ==
  \/ DoCreateAndDistribute
  \/ RestConnectRegister
  \/ RestConnectOnline
  \/ RestDrainStart
  \/ RestCloseSocket
  \/ RestKillSocket
  \/ RestHeartbeat

SpecRest == Init /\ [][NextRest]_vars

\* ------------------------------------------------------------ properties
\* The members of a message's chat other than its sender.
Recipients(rows, m) ==
  {u \in Users : is_user_in_chat(u, rows[m].chat_id) /\ u # rows[m].sender_id}

\* A socket of user u was written the envelope of message m.
Received(m, u) == \E i \in 1..Len(received[u]) : received[u][i].id = m

\* A timestamp column holds a value.
IsSet(t) == t # 0

\* delivered_at of (m, u) as the tables hold it: the MessageDelivery row of
\* (m, u) when there is one, and the message's own delivered_at.
RowSet(rows, k) == k \in DOMAIN rows /\ IsSet(rows[k])

\* C1: when a message has just been persisted, it has exactly one delivery
\* row per participant of its chat other than the sender, none for the
\* sender, and delivered_at of each of these rows is null.
DeliveryRowsOnCreate ==
  [][\A m \in DOMAIN messages' \ DOMAIN messages :
       LET rows == {k \in DOMAIN deliveries' : k[1] = m}
       IN /\ Cardinality(rows) = Len(get_chat_members(messages'[m].chat_id)) - 1
          /\ rows = {<<m, u>> : u \in Recipients(messages', m)}
          /\ \A k \in rows : ~IsSet(deliveries'[k])]_vars

\* C3: delivered_at for a message M and a recipient U other than the sender
\* is null as long as no socket of U has received M: it is not set at
\* creation and not set because another recipient received M.
DeliveredOnlyAfterReceived ==
  \A m \in DOMAIN messages : \A u \in Recipients(messages, m) :
    ~Received(m, u) =>
      /\ ~IsSet(messages[m].delivered_at)
      /\ ~RowSet(deliveries, <<m, u>>)

\* The envelope a step wrote to a socket of user u, as a set (empty when the
\* step wrote none).
Arrived(u) ==
  IF Len(received'[u]) > Len(received[u])
    THEN {received'[u][i] : i \in (Len(received[u]) + 1)..Len(received'[u])}
    ELSE {}

\* A handler took the event at the head of the bus.
Handled == bus # <<>> /\ bus' = Tail(bus)

\* C2: when a fan-out handler has processed a chat event, every member of
\* the chat other than the sender was sent the event on a socket or has it
\* appended to its offline queue.
EveryRecipientServed ==
  [][Handled =>
       LET data == Head(bus).data
       IN \A u \in Users :
            (is_user_in_chat(u, data.chat_id) /\ u # data.sender_id) =>
              \/ data \in Arrived(u)
              \/ /\ offline'[u] # <<>>
                 /\ offline'[u] = LastN(Append(offline[u], data), OfflineCap)]_vars

SentTwiceByDrain(ws) ==
  \E i, j \in 1..Len(received[SocketUser(ws)]) :
    /\ i < j
    /\ received[SocketUser(ws)][i] = received[SocketUser(ws)][j]
    /\ RowSet(deliveries, <<received[SocketUser(ws)][i].id, SocketUser(ws)>>)

DuplicateArrivalAbsorbed ==
  [][\A u \in Users : \A e \in Arrived(u) :
       RowSet(deliveries, <<e.id, u>>) =>
         /\ Len(received'[u]) = Len(received[u]) + 1
         /\ RowSet(deliveries', <<e.id, u>>)
         /\ deliveries'[<<e.id, u>>] = deliveries[<<e.id, u>>]]_vars

\* Witness of C6: the event of one message was published twice and user 2
\* has been written it twice, with delivered_at set.
DuplicateSentTwice ==
  /\ Len(published) = 2
  /\ published[1] = published[2]
  /\ Len(received[2]) = 2
  /\ received[2][1] = received[2][2]
  /\ RowSet(deliveries, <<published[1], 2>>)

\* C6 as stated: a recipient is written the event of a message at most
\* once, and the arrival that finds delivered_at set changes nothing.
AtMostOneSendPerRecipient ==
  [][\A u \in Users : \A e \in Arrived(u) :
       /\ ~Received(e.id, u)
       /\ RowSet(deliveries, <<e.id, u>>) =>
            deliveries'[<<e.id, u>>] = deliveries[<<e.id, u>>]]_vars

\* C9: a recipient receives the events of one sender in one chat in send
\* order (message ids are assigned in send order).
ReceivedInSendOrder ==
  \A u \in Users : \A i, j \in 1..Len(received[u]) :
    (/\ i < j
     /\ received[u][i].chat_id = received[u][j].chat_id
     /\ received[u][i].sender_id = received[u][j].sender_id)
      => received[u][i].id <= received[u][j].id

RECURSIVE Logged(_, _)
Logged(log, ok) ==
  IF log = <<>> THEN <<>>
  ELSE IF log[1][2] = ok THEN <<log[1][1]>> \o Logged(Tail(log), ok)
       ELSE Logged(Tail(log), ok)

ReadMarksByOtherParticipants ==
  /\ \A k \in message_reads :
       k[1] \in DOMAIN messages => k[2] \in Recipients(messages, k[1])
  /\ \A m \in DOMAIN messages :
       IsSet(messages[m].read_at) => messages[m].read_by \in Recipients(messages, m)

\* C8: mark_messages_as_read returns the number of messages whose read_at
\* went from null to set in that call, touches no MessageRead row, and a
\* second call with the same batch and reader returns 0 and changes nothing.
MarkMessagesAsReadTwice ==
  [][ret'.op = "mark_messages_as_read" =>
       /\ ret'.val = Cardinality({m \in DOMAIN messages :
                        ~IsSet(messages[m].read_at) /\ IsSet(messages'[m].read_at)})
       /\ \A m \in DOMAIN messages :
            IsSet(messages[m].read_at) => messages'[m] = messages[m]
       /\ message_reads' = message_reads
       /\ (ret.op = "mark_messages_as_read" /\ ret.args = ret'.args) =>
            ret'.val = 0 /\ UNCHANGED dbVars]_vars

\* Witness of C8: the last call was a batch of two messages that the reader
\* had already marked read, and it returned 0.
BatchMarkedAgain ==
  /\ ret.op = "mark_messages_as_read"
  /\ ret.val = 0
  /\ Cardinality(ret.args[1]) = 2
  /\ \A m \in ret.args[1] :
       m \in DOMAIN messages /\ messages[m].read_by = ret.args[2]

\* The envelopes of a drain log, in the order the drain dispatched them.
LogEnvs(log) == [i \in 1..Len(log) |-> log[i][1]]

\* C11: a drain reads the queue in enqueue order and dispatches it from the
\* head: what it has dispatched so far followed by what is still pending is
\* always the queue as it was read, the envelope written to the socket is
\* the oldest pending one, and only that envelope is marked delivered.
DrainIsFifo ==
  [][\A ws \in Sockets :
       LET u == SocketUser(ws)
       IN /\ (pc[ws] = "online" /\ pc'[ws] # "online") =>
               LogEnvs(drain_log'[ws]) \o pending'[ws] = offline[u]
          /\ pc[ws] = "draining" =>
               LogEnvs(drain_log'[ws]) \o pending'[ws]
                 = LogEnvs(drain_log[ws]) \o pending[ws]
          /\ (pc[ws] = "draining" /\ pending'[ws] # pending[ws]) =>
               /\ Arrived(u) \subseteq {Head(pending[ws])}
               /\ \A k \in DOMAIN deliveries :
                    deliveries'[k] # deliveries[k] => k = <<Head(pending[ws]).id, u>>]_vars

\* Witness of C11: a drain of two different envelopes has ended, both were
\* sent, and user 2 has received them oldest first.
DrainedTwoInOrder ==
  /\ pc[2] = "open"
  /\ Len(drain_log[2]) = 2
  /\ Logged(drain_log[2], TRUE) = LogEnvs(drain_log[2])
  /\ drain_log[2][1][1].id < drain_log[2][2][1].id
  /\ received[2] = LogEnvs(drain_log[2])

\* The queue after one more envelope e, as the cap prescribes: appended, and
\* when the queue was full its oldest envelope is gone.
Enqueued(q, e) == IF Len(q) < OfflineCap THEN Append(q, e) ELSE Append(Tail(q), e)

\* C12: a queue never holds more than the cap; an envelope stored for a user
\* (by the consumer for an offline member, by a drain whose send failed) is
\* appended at the end, and when the queue was full exactly the oldest
\* envelope is dropped.  No other step changes a queue except the drain that
\* reads and empties it.
OfflineQueueCapped ==
  [][\A u \in Users :
       /\ Len(offline'[u]) <= OfflineCap
       /\ (/\ Handled
           /\ Head(bus).via = "rabbit"
           /\ is_user_in_chat(u, Head(bus).data.chat_id)
           /\ u # Head(bus).data.sender_id
           /\ ~is_user_online(World, u)) =>
            offline'[u] = Enqueued(offline[u], Head(bus).data)
       /\ \A ws \in Sockets :
            (/\ SocketUser(ws) = u
             /\ pc[ws] = "draining"
             /\ pending'[ws] # pending[ws]
             /\ ~alive[ws]) =>
              offline'[u] = Enqueued(offline[u], Head(pending[ws]))
       /\ offline'[u] # offline[u] =>
            \/ offline'[u] = <<>>
            \/ offline'[u] = Enqueued(offline[u], offline'[u][Len(offline'[u])])]_vars

\* Witness of C12: a drain of two envelopes failed twice and another
\* envelope was stored in between; three envelopes were stored into the
\* emptied queue, and it holds the newest two.
OldestDropped ==
  /\ pc[2] = "open"
  /\ Len(drain_log[2]) = 2
  /\ Logged(drain_log[2], FALSE) = LogEnvs(drain_log[2])
  /\ Len(offline[2]) = OfflineCap
  /\ offline[2][2] = drain_log[2][2][1]
  /\ offline[2][1].id \notin {drain_log[2][1][1].id, drain_log[2][2][1].id}

\* C13: no socket of a user is written an event that the user sent, and no
\* such event is in the user's offline queue.
NoLocalEcho ==
  \A u \in Users :
    /\ \A i \in 1..Len(received[u]) : received[u][i].sender_id # u
    /\ \A i \in 1..Len(offline[u]) : offline[u][i].sender_id # u

\* The registered sockets of user u whose peer is gone.
DeadSockets(u) ==
  IF u \in DOMAIN active_connections
    THEN {ws \in active_connections[u] : ~alive[ws]}
    ELSE {}

\* C14: when the consumer sends an event to a member whose registered
\* socket is dead, the socket is removed from the registry and the event is
\* appended to the member's offline queue.
DeadSocketFallsBackOffline ==
  [][(Handled /\ Head(bus).via = "rabbit") =>
       LET data == Head(bus).data
       IN \A u \in Users :
            (/\ is_user_in_chat(u, data.chat_id)
             /\ u # data.sender_id
             /\ is_user_online(World, u)
             /\ DeadSockets(u) # {}) =>
              /\ \A ws \in DeadSockets(u) :
                   /\ ws \notin DOMAIN websocket_to_user'
                   /\ u \in DOMAIN active_connections' => ws \notin active_connections'[u]
              /\ DeadSockets(u) = active_connections[u] =>
                   offline'[u] = Enqueued(offline[u], data)]_vars

\* ------------------------------------------------ two devices of one user
\* User 1 sends into chat 1 over RabbitMQ; user 2 connects and disconnects
\* on two sockets, 2 and 4.
DeviceSockets == {2, 4}

DevPublish ==
  /\ UNCHANGED <<svcVars, instVars>>
  /\ \E m \in DOMAIN messages :
       Publish(m, "rabbit") /\ UNCHANGED <<dbVars, regVars, redisVars, sockVars, received, ret>>

DevConnectRegister ==
  /\ UNCHANGED <<svcVars, instVars>>
  /\ \E ws \in DeviceSockets : ConnectRegister(ws) /\ UNCHANGED <<dbVars, busVars, ret>>

DevConnectOnline ==
  /\ UNCHANGED <<svcVars, instVars>>
  /\ \E ws \in DeviceSockets : ConnectOnline(ws) /\ UNCHANGED <<dbVars, busVars, ret>>

DevDrainStart ==
  /\ UNCHANGED <<svcVars, instVars>>
  /\ \E ws \in DeviceSockets : DrainStart(ws) /\ UNCHANGED <<busVars, ret>>

DevDrainSend ==
  /\ UNCHANGED <<svcVars, instVars>>
  /\ \E ws \in DeviceSockets : DrainSend(ws) /\ UNCHANGED <<busVars, ret>>

DevCloseSocket ==
  /\ UNCHANGED <<svcVars, instVars>>
  /\ \E ws \in DeviceSockets : CloseSocket(ws) /\ UNCHANGED <<dbVars, busVars, ret>>

DevKillSocket ==
  /\ UNCHANGED <<svcVars, instVars>>
  /\ \E ws \in DeviceSockets : KillSocket(ws) /\ UNCHANGED <<dbVars, busVars, ret>>

DevHeartbeat ==
  /\ UNCHANGED <<svcVars, instVars>>
  /\ \E ws \in DeviceSockets : Heartbeat(ws) /\ UNCHANGED <<dbVars, busVars, ret>>

NextDevices ==
  \/ DoCreateMessage
  \/ DevPublish
  \/ DoHandleMessageCreated
  \/ DevConnectRegister
  \/ DevConnectOnline
  \/ DevDrainStart
  \/ DevDrainSend
  \/ DevCloseSocket
  \/ DevKillSocket
  \/ DevHeartbeat

SpecDevices == Init /\ [][NextDevices]_vars

\* C15: the registry holds at most one socket per user id.
OneSocketPerUser ==
  /\ \A u \in DOMAIN active_connections : Cardinality(active_connections[u]) <= 1
  /\ \A ws, other \in DOMAIN websocket_to_user :
       websocket_to_user[ws] = websocket_to_user[other] => ws = other

\* C18: the sender of every persisted message is a participant of the
\* message's chat.
SenderIsParticipant ==
  \A m \in DOMAIN messages : is_user_in_chat(messages[m].sender_id, messages[m].chat_id)

\* C20: whenever a socket was sent the event of a message, the row of the
\* message is in storage.
ReceivedOnlyCommitted ==
  \A u \in Users : \A i \in 1..Len(received[u]) : received[u][i].id \in DOMAIN messages

\* --------------------------------------------------- the socket endpoint
\* Most characters a frame's content has here.
MaxContent == 3
\* Rows the endpoint may persist in one run.
MaxFrames == 6

\* The close code of a refused connection.
WS_1008_POLICY_VIOLATION == 1008

\* An id with no row in the users table.
UnknownUser == CHOOSE n \in 1..(Cardinality(Users) + 1) : n \notin Users

\* The token query parameter of socket ws: absent, or a JWT that is or is
\* not signed with SECRET_KEY, is or is not past its exp, carries a type
\* claim and a sub claim (0: no sub).
Tokens(ws) ==
  [present : {FALSE}, signed : {FALSE}, expired : {FALSE}, type : {"access"}, sub : {0}]
    \cup [present : {TRUE}, signed : BOOLEAN, expired : BOOLEAN,
          type : {"access", "refresh"}, sub : {0, SocketUser(ws), UnknownUser}]

\* dependencies.auth.get_current_user: jwt.decode checks the signature and
\* exp, then sub must be present and name a row of users; 0 stands for the
\* raised HTTPException.  The type claim is not read.
get_current_user(token) ==
  IF ~token.signed \/ token.expired THEN 0
  ELSE IF token.sub = 0 THEN 0
  ELSE IF token.sub \notin Users THEN 0
  ELSE token.sub

\* The chat_id of the path /ws/{chat_id} socket ws connects to: user 3 asks
\* for chat 2, of which it is no participant; sockets 2 and 4 are two
\* devices of user 2 in chat 1.
SocketChat(ws) == IF ws = 3 THEN 2 ELSE 1

EndpointSockets == {2, 3, 4}

\* websocket_endpoint up to manager.connect: no token, a token that
\* get_current_user refuses, or a user outside the chat closes the socket
\* with 1008 before it is accepted; otherwise the socket is registered.
\* A refusal after the token was read leaves through the finally clause,
\* which calls manager.disconnect for the socket that was never registered.
EndpointConnect ==
  /\ UNCHANGED <<svcVars, instVars>>
  /\ \E ws \in EndpointSockets : \E token \in Tokens(ws) :
       /\ pc[ws] = "closed"
       /\ LET current_user == IF token.present THEN get_current_user(token) ELSE 0
          IN IF current_user # 0 /\ is_user_in_chat(current_user, SocketChat(ws))
               THEN /\ ConnectRegister(ws)
                    /\ Call("websocket_endpoint", <<ws, token>>, 0)
               ELSE /\ Call("websocket_endpoint", <<ws, token>>, WS_1008_POLICY_VIOLATION)
                    /\ IF token.present
                         THEN SetWorld(disconnect(World, ws))
                         ELSE UNCHANGED <<regVars, redisVars, received>>
                    /\ UNCHANGED sockVars
       /\ UNCHANGED <<dbVars, busVars>>

EndpointConnectOnline ==
  /\ UNCHANGED <<svcVars, instVars>>
  /\ \E ws \in EndpointSockets : ConnectOnline(ws) /\ NoCall /\ UNCHANGED <<dbVars, busVars>>

\* Frame contents: strings of blanks and letters.
Contents == UNION {[1..n -> {" ", "a"}] : n \in 0..MaxContent}

RECURSIVE lstrip(_)
lstrip(s) == IF s # <<>> /\ Head(s) = " " THEN lstrip(Tail(s)) ELSE s

\* str.strip()
strip(s) == Reverse(lstrip(Reverse(lstrip(s))))

\* Column(String(2000)) of Message.content, scaled to the contents here.
content_max_length == MaxContent - 1

\* What receive_text yields: the client went away (WebSocketDisconnect),
\* text that is not JSON, JSON that is not an object, or an object with a
\* type and a content.
Frames ==
  [kind : {"disconnect", "not_json", "not_object"}, type : {"message"}, content : {<<>>}]
    \cup [kind : {"object"}, type : {"message", "typing"}, content : Contents]

\* The outcome of one turn of the loop: was an error frame sent, and is the
\* connection still open.
Reply(error, open) == [error |-> error, open |-> open]

\* One turn of the receive loop of websocket_endpoint.  JSONDecodeError is
\* answered with an error frame; data.get on JSON that is not an object
\* raises AttributeError, which only the outer handler catches, so the loop
\* ends and the socket is disconnected; another type or a content that is
\* empty after strip() is skipped without an answer; a content longer than
\* the column fails at commit (rollback, error frame).  A committed row is
\* passed to MessageResponse.model_validate, which requires read_at and
\* is_delete: read_at is NULL on a new row and the column is named
\* is_deleted, so validation raises, the sender gets an error frame, the
\* socket is closed with 1011 and send_to_other is not reached.
EndpointReceive ==
  /\ UNCHANGED <<svcVars, instVars>>
  /\ \E ws \in EndpointSockets, frame \in Frames :
       /\ pc[ws] = "online"
       /\ LET content == strip(frame.content)
              leave == /\ SetWorld(disconnect(World, ws))
                       /\ Closed(ws)
                       /\ UNCHANGED <<pending, drain_log>>
              stay == UNCHANGED <<regVars, redisVars, sockVars, received>>
          IN IF frame.kind \in {"disconnect", "not_object"}
               THEN leave /\ UNCHANGED dbVars
                    /\ Call("receive_text", <<ws, frame>>, Reply(FALSE, FALSE))
             ELSE IF frame.kind = "not_json"
               THEN stay /\ UNCHANGED dbVars
                    /\ Call("receive_text", <<ws, frame>>, Reply(TRUE, TRUE))
             ELSE IF frame.type # "message" \/ content = <<>>
               THEN stay /\ UNCHANGED dbVars
                    /\ Call("receive_text", <<ws, frame>>, Reply(FALSE, TRUE))
             ELSE IF Len(content) > content_max_length
               THEN stay /\ UNCHANGED dbVars
                    /\ Call("receive_text", <<ws, frame>>, Reply(TRUE, TRUE))
             ELSE /\ next_id <= MaxFrames
                  /\ messages' = Insert(messages, next_id,
                                        NewMessage(SocketChat(ws), SocketUser(ws), 0))
                  /\ next_id' = next_id + 1
                  /\ UNCHANGED <<deliveries, message_reads, now>>
                  /\ leave
                  /\ Call("receive_text", <<ws, frame>>, Reply(TRUE, FALSE))
       /\ UNCHANGED busVars

\* One round of WebSocketManager._heartbeat for a socket whose peer is
\* there: the ping is sent and receive_json is awaited for five seconds.  A
\* pong keeps the loop going; a timeout, or any other frame read in its
\* place, breaks the loop at once and the finally clause disconnects the
\* socket.  The task keeps no count of missed pongs.
EndpointHeartbeat ==
  /\ UNCHANGED <<svcVars, instVars>>
  /\ \E ws \in EndpointSockets, response \in {"pong", "timeout", "typing"} :
       /\ ws \in heartbeat_tasks
       /\ alive[ws]
       /\ IF response = "pong"
            THEN UNCHANGED <<regVars, redisVars, received>>
            ELSE SetWorld(disconnect(World, ws))
       /\ Call("_heartbeat", <<ws, response>>, 0)
       /\ UNCHANGED <<dbVars, busVars, sockVars>>

NextEndpoint ==
  \/ EndpointConnect
  \/ EndpointConnectOnline
  \/ EndpointReceive
  \/ EndpointHeartbeat

SpecEndpoint == Init /\ [][NextEndpoint]_vars

\* C16: a connection whose token is missing, malformed, expired, of another
\* type than access or of no existing user is closed with 1008 and leaves
\* the registry and the session store as they were.
AccessTokenOnly ==
  [][ret'.op = "websocket_endpoint" =>
       LET token == ret'.args[2]
       IN \/ /\ token.present
             /\ token.signed
             /\ ~token.expired
             /\ token.type = "access"
             /\ token.sub \in Users
          \/ /\ ret'.val = WS_1008_POLICY_VIOLATION
             /\ UNCHANGED <<regVars, sessions>>]_vars

\* C17: no sender has more than five rows persisted within one window; the
\* clock does not advance in this specification, so all rows share a window.
AtMostFivePerWindow ==
  now = 0 =>
    \A u \in Users : Cardinality({m \in DOMAIN messages : messages[m].sender_id = u}) <= 5

\* C19: a frame that is not JSON, not an object, or a message whose content
\* is empty after trimming or longer than the limit is answered with an
\* error frame, changes no stored state and leaves the connection open.
InvalidFrameAnswered ==
  [][ret'.op = "receive_text" =>
       LET frame == ret'.args[2]
           invalid == \/ frame.kind \in {"not_json", "not_object"}
                      \/ /\ frame.kind = "object"
                         /\ frame.type = "message"
                         /\ \/ strip(frame.content) = <<>>
                            \/ Len(strip(frame.content)) > content_max_length
       IN invalid =>
            /\ ret'.val.error
            /\ ret'.val.open
            /\ UNCHANGED <<dbVars, busVars>>]_vars

\* C21: a socket whose pong is missed right after an answered ping, its
\* first miss in a row, is not disconnected.
FirstMissKeepsSocket ==
  [][(/\ ret.op = "_heartbeat"
      /\ ret.args[2] = "pong"
      /\ ret'.op = "_heartbeat"
      /\ ret'.args[1] = ret.args[1]
      /\ ret'.args[2] = "timeout") =>
       ret'.args[1] \in DOMAIN websocket_to_user']_vars

\* ------------------------------------------------------ Redis unreachable
\* Every Redis command raises RedisError from the start of the run, so the
\* session store stays empty and the cache of is_user_online is never filled.

\* WebSocketManager.connect, steps 4-7: add_user_session and
\* subscribe_to_chat catch the RedisError and change nothing; the heartbeat
\* is started and the greeting is sent.
OutageConnectOnline ==
  /\ UNCHANGED <<svcVars, instVars>>
  /\ \E ws \in FanoutSockets :
       /\ pc[ws] = "registered"
       /\ SetWorld(send_personal([World EXCEPT !.hb = @ \cup {ws}], ws))
       /\ pc' = [pc EXCEPT ![ws] = "online"]
       /\ UNCHANGED <<alive, pending, drain_log, dbVars, busVars, ret>>

\* MessageCreatedConsumer.handle: is_user_online catches the RedisError and
\* returns the cached value or False, so every member takes the else branch;
\* the offline store cannot be written and the envelope is skipped.
OutageHandleMessageCreated ==
  /\ UNCHANGED <<svcVars, instVars>>
  /\ /\ bus # <<>>
     /\ Head(bus).via = "rabbit"
     /\ bus' = Tail(bus)
     /\ UNCHANGED <<published, dbVars, regVars, redisVars, sockVars, received, ret>>

NextOutage ==
  \/ DoCreateMessage
  \/ DevPublish
  \/ DoConnectRegister
  \/ OutageConnectOnline
  \/ OutageHandleMessageCreated

SpecOutage == Init /\ [][NextOutage]_vars

\* C22: while Redis is unreachable, a bus event is still written to the
\* locally connected sockets of the chat's members other than the sender,
\* and no socket is dropped.
LocalSocketsStillServed ==
  [][Handled =>
       LET data == Head(bus).data
       IN /\ UNCHANGED regVars
          /\ \A u \in Users :
               (/\ is_user_in_chat(u, data.chat_id)
                /\ u # data.sender_id
                /\ u \in DOMAIN active_connections
                /\ \E ws \in active_connections[u] : alive[ws]) =>
                 Arrived(u) = {data}]_vars

\* Socket ws is in none of the registry maps of W.
Unregistered(W, ws) ==
  /\ ws \notin DOMAIN W.w2u
  /\ ws \notin W.ids
  /\ ws \notin W.hb
  /\ \A u \in DOMAIN W.ac : ws \notin W.ac[u]

\* C23: disconnect of a socket that is in no registry map changes nothing;
\* after disconnect of any socket the socket is in no registry map and a
\* second disconnect changes nothing; after disconnect of a user's last
\* registered socket the user is offline.
DisconnectIdempotent ==
  \A ws \in Sockets :
    LET W1 == disconnect(World, ws)
        u == SocketUser(ws)
    IN /\ Unregistered(World, ws) => W1 = World
       /\ Unregistered(W1, ws)
       /\ disconnect(W1, ws) = W1
       /\ (/\ ws \in DOMAIN websocket_to_user
           /\ u \in DOMAIN active_connections
           /\ active_connections[u] = {ws}) => ~is_user_online(W1, u)

\* ------------------------------------------------------- edit and delete
\* MessageEdit rows one message may collect in a run.
MaxEdits == 2
\* Messages created in the runs that edit and delete.
MaxEdited == 1

\* An edit that keeps only the newest MessageEdit row.
replace_edit(edits, user_id, old_content, new_content) ==
  <<[user_id |-> user_id, old_content |-> old_content, new_content |-> new_content]>>

\* The insert of one MessageEdit row.
append_edit(edits, user_id, old_content, new_content) ==
  Append(edits, [user_id |-> user_id, old_content |-> old_content,
                 new_content |-> new_content])

\* A sender check that lets every user through.
anyone(row, user_id) == TRUE

\* The check that the caller is the original sender.
is_sender(row, user_id) == row.sender_id = user_id

\* MessageService.edit_message(message_id, user_id, new_content, db)
edit_message(message_id, user_id, new_content) ==
  IF message_id \notin DOMAIN messages \/ messages[message_id].is_deleted
    THEN [rows |-> messages, val |-> "MESSAGE_NOT_FOUND"]
  ELSE IF ~is_sender(messages[message_id], user_id)
    THEN [rows |-> messages, val |-> "FORBIDDEN"]
  ELSE [rows |-> [messages EXCEPT
                    ![message_id].edits =
                       append_edit(@, user_id, messages[message_id].content, new_content),
                    ![message_id].content = new_content,
                    ![message_id].is_edited = TRUE],
        val |-> "OK"]

\* MessageService.delete_message(message_id, user_id, db): soft delete.
delete_message(message_id, user_id) ==
  IF message_id \notin DOMAIN messages \/ messages[message_id].is_deleted
    THEN [rows |-> messages, val |-> "MESSAGE_NOT_FOUND"]
  ELSE IF ~is_sender(messages[message_id], user_id)
    THEN [rows |-> messages, val |-> "FORBIDDEN"]
  ELSE [rows |-> [messages EXCEPT ![message_id].is_deleted = TRUE], val |-> "OK"]

EditCreateMessage ==
  /\ UNCHANGED <<svcVars, instVars>>
  /\ \E s \in FanoutSenders :
       next_id <= MaxEdited /\ CreateMessage(Min(FanoutChats), s) /\ NoCall /\ Frozen

DbEditMessage ==
  /\ UNCHANGED <<svcVars, instVars>>
  /\ \E m \in 1..(MaxEdited + 1), u \in Users, c \in {"a", "b"} :
       LET r == edit_message(m, u, c)
       IN /\ r.val = "OK" => Len(messages[m].edits) < MaxEdits
          /\ messages' = r.rows
          /\ Call("edit_message", <<m, u, c>>, r.val)
          /\ UNCHANGED <<next_id, deliveries, message_reads, now>> /\ Frozen

DbDeleteMessage ==
  /\ UNCHANGED <<svcVars, instVars>>
  /\ \E m \in 1..(MaxEdited + 1), u \in Users :
       LET r == delete_message(m, u)
       IN /\ messages' = r.rows
          /\ Call("delete_message", <<m, u>>, r.val)
          /\ UNCHANGED <<next_id, deliveries, message_reads, now>> /\ Frozen

NextEdit ==
  \/ EditCreateMessage
  \/ DbEditMessage
  \/ DbDeleteMessage

SpecEdit == Init /\ [][NextEdit]_vars

\* s is a prefix of t.
IsPrefix(s, t) == Len(s) <= Len(t) /\ SubSeq(t, 1, Len(s)) = s

\* C24: the MessageEdit rows of a message only grow at the end; a
\* successful edit_message adds exactly one row, holding the editor, the
\* content before and the content after, and leaves is_edited true; and a
\* message with is_edited has at least one MessageEdit row.
EditHistoryInsertOnly ==
  [][/\ \A m \in DOMAIN messages :
          /\ m \in DOMAIN messages'
          /\ IsPrefix(messages[m].edits, messages'[m].edits)
     /\ \A m \in DOMAIN messages' :
          messages'[m].is_edited => messages'[m].edits # <<>>
     /\ (ret'.op = "edit_message" /\ ret'.val = "OK") =>
          LET m == ret'.args[1]
          IN /\ Len(messages'[m].edits) = Len(messages[m].edits) + 1
             /\ messages'[m].edits[Len(messages'[m].edits)] =
                  [user_id |-> ret'.args[2], old_content |-> messages[m].content,
                   new_content |-> ret'.args[3]]
             /\ messages'[m].content = ret'.args[3]
             /\ messages'[m].is_edited]_vars

\* Witness of C24: message 1 was edited twice with the same content and has
\* two MessageEdit rows.
EditedTwiceSameContent ==
  /\ 1 \in DOMAIN messages
  /\ Len(messages[1].edits) = 2
  /\ messages[1].edits[1].new_content = messages[1].edits[2].new_content
  /\ messages[1].is_edited

\* C25: edit_message and delete_message fail with MESSAGE_NOT_FOUND on a
\* missing or soft-deleted message and with FORBIDDEN for a user other than
\* the sender; a failed call changes no message; a successful call was made
\* by the sender, and a successful delete keeps the row and only sets
\* is_deleted.
OnlySenderEditsOrDeletes ==
  [][ret'.op \in {"edit_message", "delete_message"} =>
       LET m == ret'.args[1]
           u == ret'.args[2]
           found == m \in DOMAIN messages /\ ~messages[m].is_deleted
       IN /\ ~found => ret'.val = "MESSAGE_NOT_FOUND"
          /\ (found /\ messages[m].sender_id # u) => ret'.val = "FORBIDDEN"
          /\ ret'.val # "OK" => messages' = messages
          /\ ret'.val = "OK" => found /\ messages[m].sender_id = u
          /\ (ret'.op = "delete_message" /\ ret'.val = "OK") =>
               messages' = [messages EXCEPT ![m].is_deleted = TRUE]]_vars

\* Witness of C25: a user other than the sender was refused the delete of
\* message 1, which the sender had edited before.
DeleteRefused ==
  /\ ret.op = "delete_message"
  /\ ret.val = "FORBIDDEN"
  /\ ret.args[1] = 1
  /\ messages[1].sender_id # ret.args[2]
  /\ messages[1].is_edited
  /\ ~messages[1].is_deleted

\* ------------------------------------------------- delivered and read
\* A message is created, marked delivered per recipient and marked read, in
\* any order.
NextReceipt ==
  \/ DbCreateMessage
  \/ DbMarkDelivered
  \/ DbMarkAsRead

SpecReceipt == Init /\ [][NextReceipt]_vars

\* C26: a message that a recipient has read was delivered to that recipient
\* before, and its read_at is not earlier than that delivered_at.
ReadOnlyAfterDelivered ==
  \A m \in DOMAIN messages :
    (IsSet(messages[m].read_at) /\ messages[m].read_by \in Recipients(messages, m)) =>
      /\ RowSet(deliveries, <<m, messages[m].read_by>>)
      /\ messages[m].read_at >= deliveries[<<m, messages[m].read_by>>]

\* -------------------------------------------------------- private chats
\* chat_rooms holds the rooms with is_group = False and, per room, the user
\* ids of its rows in participants (primary key (user_id, chat_id)).
MaxChats == 3

NotServing == UNCHANGED <<dbVars, regVars, redisVars, busVars, sockVars, received, instVars>>

Suspend(r, op, a, b) == tasks' = [tasks EXCEPT ![r] = [op |-> op, a |-> a, b |-> b]]

Resume(r) == tasks' = [tasks EXCEPT ![r] = Idle]

\* The rooms that the query of _find_private_chat and of create_chat selects:
\* both users are among the room's participants.
private_chats_of(rooms, user1_id, user2_id) ==
  {c \in DOMAIN rooms : Cardinality(rooms[c] \cap {user1_id, user2_id}) = 2}

\* ChatService._find_private_chat: limit(1) of the selection, 0 for None.
_find_private_chat(rooms, user1_id, user2_id) ==
  IF private_chats_of(rooms, user1_id, user2_id) = {} THEN 0
  ELSE Min(private_chats_of(rooms, user1_id, user2_id))

\* ChatService.find_or_create_private_chat up to the await of
\* create_private_chat: the existing chat is returned, or the request goes on
\* to create one.
FindOrCreatePrivateChat ==
  /\ NotServing
  /\ UNCHANGED <<chat_rooms, refresh_tokens, issued>>
  /\ \E r \in Requests, user1_id \in Users, user2_id \in Users :
       /\ tasks[r] = Idle
       /\ LET existing_chat == _find_private_chat(chat_rooms, user1_id, user2_id) IN
            IF existing_chat # 0
              THEN /\ Call("find_or_create_private_chat", <<user1_id, user2_id>>, existing_chat)
                   /\ UNCHANGED tasks
              ELSE /\ Suspend(r, "create_private_chat", user1_id, user2_id)
                   /\ UNCHANGED ret

\* redis_manager.add_user_to_chat: the user joins the set
\* chat:subscribers:{chat_id}; a key that does not exist is an empty set.
add_user_to_chat(subs, user_id, chat_id) ==
  IF chat_id \in DOMAIN subs
    THEN [subs EXCEPT ![chat_id] = @ \cup {user_id}]
    ELSE Insert(subs, chat_id, {user_id})

\* ChatService.create_private_chat: the room and its two participant rows are
\* committed together and both users are added to the room's set in Redis;
\* two equal rows violate the primary key, the transaction is rolled back
\* and None (0) is returned.
CreatePrivateChat ==
  /\ UNCHANGED <<dbVars, regVars, sessions, offline, busVars, sockVars, received, instVars>>
  /\ UNCHANGED <<refresh_tokens, issued>>
  /\ \E r \in Requests :
       /\ tasks[r].op = "create_private_chat"
       /\ Len(chat_rooms) < MaxChats
       /\ IF tasks[r].a = tasks[r].b
            THEN /\ UNCHANGED <<chat_rooms, chat_subscribers>>
                 /\ Call("find_or_create_private_chat", <<tasks[r].a, tasks[r].b>>, 0)
            ELSE /\ chat_rooms' = Append(chat_rooms, {tasks[r].a, tasks[r].b})
                 /\ chat_subscribers' =
                      add_user_to_chat(add_user_to_chat(chat_subscribers, tasks[r].a,
                                                        Len(chat_rooms) + 1),
                                       tasks[r].b, Len(chat_rooms) + 1)
                 /\ Call("find_or_create_private_chat", <<tasks[r].a, tasks[r].b>>,
                         Len(chat_rooms) + 1)
       /\ Resume(r)

\* POST /chats up to its first commit: 400 for a chat with oneself, the
\* existing chat when the selection has one row, MultipleResultsFound (500)
\* when it has more, otherwise the new room is committed without participants.
RouterCreateChat ==
  /\ NotServing
  /\ UNCHANGED <<refresh_tokens, issued>>
  /\ \E r \in Requests, current_user \in Users, second_user_id \in Users :
       /\ tasks[r] = Idle
       /\ LET found == private_chats_of(chat_rooms, current_user, second_user_id) IN
            IF current_user = second_user_id
              THEN /\ Call("create_chat", <<current_user, second_user_id>>, 400)
                   /\ UNCHANGED <<chat_rooms, tasks>>
            ELSE IF Cardinality(found) > 1
              THEN /\ Call("create_chat", <<current_user, second_user_id>>, 500)
                   /\ UNCHANGED <<chat_rooms, tasks>>
            ELSE IF found # {}
              THEN /\ Call("create_chat", <<current_user, second_user_id>>, 200)
                   /\ UNCHANGED <<chat_rooms, tasks>>
            ELSE /\ Len(chat_rooms) < MaxChats
                 /\ chat_rooms' = Append(chat_rooms, {})
                 /\ Suspend(r, "create_chat", current_user, second_user_id)
                 /\ UNCHANGED ret

\* POST /chats from step 7 on: both users are added to the room the request
\* committed (the newest empty room stands for it) and 201 is returned.
RouterAddParticipants ==
  /\ NotServing
  /\ UNCHANGED <<refresh_tokens, issued>>
  /\ \E r \in Requests :
       /\ tasks[r].op = "create_chat"
       /\ \E c \in DOMAIN chat_rooms :
            /\ chat_rooms[c] = {}
            /\ chat_rooms' = [chat_rooms EXCEPT ![c] = {tasks[r].a, tasks[r].b}]
       /\ Call("create_chat", <<tasks[r].a, tasks[r].b>>, 201)
       /\ Resume(r)

NextChats ==
  \/ FindOrCreatePrivateChat
  \/ CreatePrivateChat
  \/ RouterCreateChat
  \/ RouterAddParticipants

SpecChats == Init /\ [][NextChats]_vars

\* C27: no two private chats have the same two participants.
NoDuplicatePrivateChat ==
  \A c, d \in DOMAIN chat_rooms :
    (Cardinality(chat_rooms[c]) = 2 /\ chat_rooms[d] = chat_rooms[c]) => d = c

\* -------------------------------------------------------- refresh tokens
\* create_refresh_token signs a token with a fresh jti; the jti are numbered
\* in the order of signing. refresh_tokens is the set of jti with a key
\* refresh:jti:{jti} in Redis.
MaxTokens == 3

AuthUsers == {1, 2}

is_refresh_token_valid(jti) == jti \in refresh_tokens

\* AuthService.login with valid credentials.
AuthLogin ==
  /\ NotServing
  /\ UNCHANGED <<chat_rooms, tasks>>
  /\ \E user \in AuthUsers :
       /\ Len(issued) < MaxTokens
       /\ issued' = Append(issued, user)
       /\ refresh_tokens' = refresh_tokens \cup {Len(issued) + 1}
       /\ Call("login", <<user>>, Len(issued) + 1)

\* AuthService.refresh_token up to the await of revoke_refresh_token, for a
\* token the service signed.
AuthRefreshToken ==
  /\ NotServing
  /\ UNCHANGED <<chat_rooms, refresh_tokens, issued>>
  /\ \E r \in Requests, jti \in DOMAIN issued :
       /\ tasks[r] = Idle
       /\ IF is_refresh_token_valid(jti)
            THEN Suspend(r, "refresh_token", jti, 0) /\ UNCHANGED ret
            ELSE Call("refresh_token", <<jti>>, "REFRESH_REVOKED") /\ UNCHANGED tasks

\* AuthService.refresh_token from revoke_refresh_token on: the old jti is
\* deleted, a new token is signed for the same sub and its jti allowlisted.
AuthRefreshIssue ==
  /\ NotServing
  /\ UNCHANGED chat_rooms
  /\ \E r \in Requests :
       /\ tasks[r].op = "refresh_token"
       /\ Len(issued) < MaxTokens
       /\ issued' = Append(issued, issued[tasks[r].a])
       /\ refresh_tokens' = (refresh_tokens \ {tasks[r].a}) \cup {Len(issued) + 1}
       /\ Call("refresh_token", <<tasks[r].a>>, Len(issued) + 1)
       /\ Resume(r)

\* AuthService.logout up to the await of revoke_refresh_token.
AuthLogout ==
  /\ NotServing
  /\ UNCHANGED <<chat_rooms, refresh_tokens, issued>>
  /\ \E r \in Requests, jti \in DOMAIN issued, current_user \in AuthUsers :
       /\ tasks[r] = Idle
       /\ IF current_user # issued[jti]
            THEN Call("logout", <<jti, current_user>>, "FORBIDDEN") /\ UNCHANGED tasks
          ELSE IF ~is_refresh_token_valid(jti)
            THEN Call("logout", <<jti, current_user>>, "ALREADY_REVOKED") /\ UNCHANGED tasks
          ELSE Suspend(r, "logout", jti, current_user) /\ UNCHANGED ret

\* AuthService.logout, its revoke_refresh_token.
AuthLogoutRevoke ==
  /\ NotServing
  /\ UNCHANGED <<chat_rooms, issued>>
  /\ \E r \in Requests :
       /\ tasks[r].op = "logout"
       /\ refresh_tokens' = refresh_tokens \ {tasks[r].a}
       /\ Call("logout", <<tasks[r].a, tasks[r].b>>, "OK")
       /\ Resume(r)

NextAuth ==
  \/ AuthLogin
  \/ AuthRefreshToken
  \/ AuthRefreshIssue
  \/ AuthLogout
  \/ AuthLogoutRevoke

SpecAuth == Init /\ [][NextAuth]_vars

\* C28: a refresh or a logout that succeeds redeems a token whose jti is on
\* the allowlist at that moment, so that no token is redeemed a second time.
RefreshRedeemedOnce ==
  [][\A r \in Requests :
       (tasks[r].op \in {"refresh_token", "logout"} /\ tasks'[r] = Idle)
         => tasks[r].a \in refresh_tokens]_vars

\* C29: the step that writes the event of a message to a socket of a
\* recipient, by live fan-out or by the drain, leaves delivered_at of
\* (message, recipient) set.
SentThenMarkedDelivered ==
  [][\A u \in Users : \A e \in Arrived(u) :
       RowSet(deliveries', <<e.id, u>>)]_vars

\* ------------------------------------------- drains of one user's queue
\* User 2 reconnects on two sockets while events for it are stored: by the
\* consumer while the user is offline, by a drain whose send failed.
NextDrain ==
  \/ DoCreateMessage
  \/ DevPublish
  \/ DoHandleMessageCreated
  \/ DevConnectRegister
  \/ DevConnectOnline
  \/ DevDrainStart
  \/ DevDrainSend
  \/ DevKillSocket

SpecDrain == Init /\ [][NextDrain]_vars

\* The sockets of user u whose drain reads the queue in this step.
Draining(u) ==
  {ws \in Sockets : SocketUser(ws) = u /\ pc[ws] = "online" /\ pc'[ws] # "online"}

\* The step returns the whole queue of u to one drain and empties it, and
\* hands nothing to another socket of u.
ReadAndDelete(u) ==
  \E ws \in Draining(u) :
    /\ Draining(u) = {ws}
    /\ pending'[ws] = offline[u]
    /\ offline'[u] = <<>>
    /\ \A o \in Sockets \ {ws} : pending'[o] = pending[o]

\* The step hands no queued envelope to any drain.
NothingReturned(u) ==
  /\ Draining(u) = {}
  /\ \A ws \in Sockets :
       SocketUser(ws) = u =>
         \/ pending'[ws] = pending[ws]
         \/ pending[ws] # <<>> /\ pending'[ws] = Tail(pending[ws])

\* C30 as stated: an envelope leaves the queue of a user only in the step of
\* a drain that returns it, and that step returns the whole queue to one
\* drain; every other step leaves the queue as it was or appends to it.
DrainOnlyRemoves ==
  [][\A u \in Users :
       \/ ReadAndDelete(u)
       \/ NothingReturned(u) /\ IsPrefix(offline[u], offline'[u])]_vars

\* C30: a drain reads and deletes the queue of a user in one step, so that
\* an envelope is returned to one drain only; in every other step the queue
\* stays as it was or an envelope is stored at its end, and the only
\* envelope that leaves the queue without being returned is the oldest one
\* of a full queue, dropped by the store that appends.
DrainAtomic ==
  [][\A u \in Users :
       \/ ReadAndDelete(u)
       \/ /\ NothingReturned(u)
          /\ \/ offline'[u] = offline[u]
             \/ \E e \in {Envelope(m, messages[m].chat_id, messages[m].sender_id) :
                            m \in DOMAIN messages} :
                  offline'[u] = Enqueued(offline[u], e)]_vars

\* Witness of C30: socket 2 is in the middle of a drain, one of its
\* envelopes was stored again, and socket 4 of the same user has drained
\* and sent it.
TwoDrainsInterleaved ==
  /\ pc[4] = "open"
  /\ pending[2] # <<>>
  /\ Len(drain_log[2]) = 1
  /\ drain_log[2][1][2] = FALSE
  /\ drain_log[4] = <<<<drain_log[2][1][1], TRUE>>>>

\* ---------------------------------------------------- the bus subscriber
\* The lifespan of the application starts and stops the Redis pub/sub
\* listener of the instance; the connection to Redis is lost and comes back.
LsnQuiet ==
  UNCHANGED <<dbVars, regVars, redisVars, sockVars, received, ret, svcVars,
              presVars, chat_reads, frmVars, subVars>>

Listener == [listening |-> _listening, pubsub |-> _pubsub, loop |-> _listen_loop]

SetListener(L) ==
  /\ _listening' = L.listening
  /\ _pubsub' = L.pubsub
  /\ _listen_loop' = L.loop

\* RedisManager.start_listening: nothing when _listening is set; otherwise a
\* new pubsub is subscribed to chat:messages:* and the loop task is created,
\* or psubscribe raises and _listening is cleared.
start_listening(L, up) ==
  IF L.listening THEN L
  ELSE IF up THEN [listening |-> TRUE, pubsub |-> "subscribed", loop |-> "listening"]
  ELSE [L EXCEPT !.pubsub = "none"]

\* RedisManager._reconnect: the pubsub and the client are closed, a new
\* client is made and start_listening is called when _listening is set.
_reconnect(L, up) ==
  LET closed == [L EXCEPT !.pubsub = IF @ = "none" THEN "none" ELSE "closed"]
  IN IF closed.listening THEN start_listening(closed, up) ELSE closed

\* lifespan, startup: ping, then start_listening when Redis answered.
LsnStartup ==
  /\ lifespan = "startup"
  /\ lifespan' = "running"
  /\ SetListener(IF redis_up THEN start_listening(Listener, redis_up) ELSE Listener)
  /\ UNCHANGED <<redis_up, busVars>>
  /\ LsnQuiet

\* The connection to Redis breaks, or Redis is back.
LsnRedisFlips ==
  /\ lifespan = "running"
  /\ redis_up' = ~redis_up
  /\ UNCHANGED <<_listening, _pubsub, _listen_loop, lifespan, busVars>>
  /\ LsnQuiet

\* _listen_loop: listen() raises ConnectionError; the loop counts a
\* reconnect and sleeps.
LsnConnectionLost ==
  /\ _listen_loop = "listening"
  /\ _pubsub = "subscribed"
  /\ ~redis_up
  /\ _listen_loop' = "lost"
  /\ UNCHANGED <<_listening, _pubsub, redis_up, lifespan, busVars>>
  /\ LsnQuiet

\* _listen_loop after the sleep: _reconnect, then the loop condition.
LsnReconnect ==
  /\ _listen_loop = "lost"
  /\ LET L == _reconnect(Listener, redis_up)
     IN SetListener([L EXCEPT !.loop = IF L.listening THEN "listening" ELSE "ended"])
  /\ UNCHANGED <<redis_up, lifespan, busVars>>
  /\ LsnQuiet

\* publish_chat_message of a persisted message while Redis is reachable.
LsnPublish ==
  /\ lifespan = "running"
  /\ redis_up
  /\ \E m \in DOMAIN messages : Publish(m, "redis")
  /\ UNCHANGED lsnVars
  /\ LsnQuiet

\* Redis delivers a published event: to _handle_pubsub_message when the
\* loop is reading a subscribed pubsub, to nobody otherwise.
LsnDeliver ==
  /\ bus # <<>>
  /\ Head(bus).via = "redis"
  /\ IF _listen_loop = "listening" /\ _pubsub = "subscribed"
       THEN HandlePubsub
       ELSE /\ bus' = Tail(bus)
            /\ UNCHANGED <<published, regVars, redisVars, received>>
  /\ UNCHANGED <<dbVars, sockVars, ret, svcVars, instVars>>

\* lifespan, shutdown: redis_manager.close().  The loop task was stored in
\* _listening_task, so _listener_task is None and no task is cancelled.
LsnShutdown ==
  /\ lifespan = "running"
  /\ lifespan' = "stopped"
  /\ _listening' = FALSE
  /\ _pubsub' = IF _pubsub = "none" THEN "none" ELSE "closed"
  /\ UNCHANGED <<_listen_loop, redis_up, busVars>>
  /\ LsnQuiet

\* _listen_loop: listen() on the closed pubsub ends and the loop condition
\* is false.
LsnLoopEnds ==
  /\ _listen_loop = "listening"
  /\ _pubsub = "closed"
  /\ ~_listening
  /\ _listen_loop' = "ended"
  /\ UNCHANGED <<_listening, _pubsub, redis_up, lifespan, busVars>>
  /\ LsnQuiet

\* Sockets connect while the application runs.
LsnConnectRegister ==
  /\ lifespan = "running"
  /\ \E ws \in FanoutSockets : ConnectRegister(ws)
  /\ UNCHANGED <<dbVars, busVars, ret, svcVars, instVars>>

LsnConnectOnline ==
  /\ lifespan = "running"
  /\ \E ws \in FanoutSockets : ConnectOnline(ws)
  /\ UNCHANGED <<dbVars, busVars, ret, svcVars, instVars>>

NextListener ==
  \/ LsnStartup
  \/ LsnRedisFlips
  \/ LsnConnectionLost
  \/ LsnReconnect
  \/ DoCreateMessage
  \/ LsnPublish
  \/ LsnDeliver
  \/ LsnShutdown
  \/ LsnLoopEnds
  \/ LsnConnectRegister
  \/ LsnConnectOnline

SpecListener == Init /\ [][NextListener]_vars

\* C31: while listening is enabled and the loop task is reading, the
\* instance holds its subscription to the chat channel pattern, also after
\* a connection loss and _reconnect.
SubscribedWhileListening ==
  (_listening /\ _listen_loop = "listening") => _pubsub = "subscribed"

\* C34: when the shutdown has completed, the registry is empty, no socket
\* is open and the listener task has stopped.
ShutdownClosesSockets ==
  lifespan = "stopped" =>
    /\ active_connections = <<>>
    /\ websocket_to_user = <<>>
    /\ websocket_ids = {}
    /\ heartbeat_tasks = {}
    /\ \A ws \in Sockets : pc[ws] = "closed"

\* ----------------------------------------------------------- bus publish
\* The default of publish_chat_message's parameter retries.
retries == 2

PublishQuiet == UNCHANGED <<dbVars, regVars, redisVars, sockVars, received, instVars,
                            chat_rooms, refresh_tokens, issued>>

\* publish_chat_message, one pass of `for attempt in range(retries + 1)`
\* for message m after `made` earlier attempts: the publish succeeds and True
\* is returned, or it raises RedisError and the loop sleeps and goes on, or,
\* when attempt = retries, ends and False is returned.
publish_attempt(r, m, made, ok) ==
  IF ok
    THEN /\ Publish(m, "redis")
         /\ Call("publish_chat_message", <<m, made + 1>>, TRUE)
         /\ Resume(r)
  ELSE IF made = retries
    THEN /\ Call("publish_chat_message", <<m, made + 1>>, FALSE)
         /\ Resume(r)
         /\ UNCHANGED busVars
  ELSE /\ Suspend(r, "publish_chat_message", m, made + 1)
       /\ UNCHANGED <<busVars, ret>>

\* publish_chat_message is called for a persisted message: first attempt.
PublishChatMessage ==
  /\ PublishQuiet
  /\ \E r \in Requests, m \in DOMAIN messages, ok \in BOOLEAN :
       /\ tasks[r] = Idle
       /\ publish_attempt(r, m, 0, ok)

\* publish_chat_message after a sleep: the next attempt.
PublishRetry ==
  /\ PublishQuiet
  /\ \E r \in Requests, ok \in BOOLEAN :
       /\ tasks[r].op = "publish_chat_message"
       /\ publish_attempt(r, tasks[r].a, tasks[r].b, ok)

NextPublish ==
  \/ DbCreateMessage
  \/ PublishChatMessage
  \/ PublishRetry

SpecPublish == Init /\ [][NextPublish]_vars

\* C32: a call of publish_chat_message that has returned made at most two
\* publish attempts.
AtMostTwoAttempts ==
  ret.op = "publish_chat_message" => ret.args[2] <= 2

\* The members Redis holds for a room.
chat_members(chat_id) ==
  IF chat_id \in DOMAIN chat_subscribers THEN chat_subscribers[chat_id] ELSE {}

\* C33: the two participants of a private chat that has been created are
\* members of the chat's set in Redis, whichever path created the chat.
MirrorHasParticipants ==
  \A c \in DOMAIN chat_rooms :
    Cardinality(chat_rooms[c]) = 2 => chat_rooms[c] \subseteq chat_members(c)

\* ------------------------------------------------------ the read pointer
\* chat.read events of users 2 and 3 for chat 1 are handled by two consumers
\* at a time, each in a database session of its own.  No socket is
\* registered here, so the notification that follows the commit reaches none.
MaxRead == 3

ReadUsers == {2, 3}

ReadQuiet ==
  UNCHANGED <<dbVars, regVars, redisVars, busVars, sockVars, received,
              chat_rooms, refresh_tokens, issued, lsnVars, presVars, frmVars, subVars>>

\* ChatReadService.mark_chat_read up to `await db.commit()`: the row of
\* (chat, user) is selected and the session decides what it will write.
MarkChatReadSelect ==
  /\ ReadQuiet
  /\ UNCHANGED chat_reads
  /\ \E r \in Requests, user_id \in ReadUsers, last_read_message_id \in 1..MaxRead :
       LET record == <<Min(FanoutChats), user_id>> IN
         /\ tasks[r] = Idle
         /\ IF record \notin DOMAIN chat_reads
              THEN /\ Suspend(r, "mark_chat_read_insert", user_id, last_read_message_id)
                   /\ UNCHANGED ret
            ELSE IF last_read_message_id > chat_reads[record]
              THEN /\ Suspend(r, "mark_chat_read_update", user_id, last_read_message_id)
                   /\ UNCHANGED ret
            ELSE /\ Call("mark_chat_read", <<user_id, last_read_message_id>>, "kept")
                 /\ UNCHANGED tasks

\* ChatReadService.mark_chat_read, the commit: the UPDATE writes the value
\* the session decided on; the INSERT of a second row for (chat, user) fails
\* on the unique constraint uix_chat_user.
MarkChatReadCommit ==
  /\ ReadQuiet
  /\ \E r \in Requests :
       LET record == <<Min(FanoutChats), tasks[r].a>> IN
         /\ tasks[r].op \in {"mark_chat_read_insert", "mark_chat_read_update"}
         /\ IF tasks[r].op = "mark_chat_read_update"
              THEN /\ chat_reads' = [chat_reads EXCEPT ![record] = tasks[r].b]
                   /\ Call("mark_chat_read", <<tasks[r].a, tasks[r].b>>, "updated")
            ELSE IF record \in DOMAIN chat_reads
              THEN /\ UNCHANGED chat_reads
                   /\ Call("mark_chat_read", <<tasks[r].a, tasks[r].b>>, "IntegrityError")
            ELSE /\ chat_reads' = Insert(chat_reads, record, tasks[r].b)
                 /\ Call("mark_chat_read", <<tasks[r].a, tasks[r].b>>, "inserted")
         /\ Resume(r)

NextChatRead ==
  \/ MarkChatReadSelect
  \/ MarkChatReadCommit

SpecChatRead == Init /\ [][NextChatRead]_vars

\* C35: the read pointer of a (chat, user) never decreases and its row is
\* never removed.
ReadPointerMonotonic ==
  [][\A k \in DOMAIN chat_reads :
       k \in DOMAIN chat_reads' /\ chat_reads'[k] >= chat_reads[k]]_vars

\* ------------------------------------------- connect/disconnect at awaits
\* WebSocketManager.connect and disconnect, cut at their awaits.  connect
\* suspends at websocket.accept() (the connection id is already stored) and
\* at the Redis registration (the local maps are already written).
\* disconnect suspends at "await task" when it found and popped a heartbeat
\* task; it read user_id and ws_id before that, and goes on with what it
\* read.  tasks[r] is a suspended disconnect: op is its caller, a the socket,
\* b what step 1 read.
RegFrame ==
  UNCHANGED <<dbVars, busVars, pending, drain_log, chat_rooms, refresh_tokens, issued, instVars>>

RegQuiet == RegFrame /\ UNCHANGED ret

Disconnecting(ws) == \E r \in Requests : tasks[r].op # "idle" /\ tasks[r].a = ws

\* A disconnect that, after its await, removes the socket from
\* active_connections and websocket_to_user only.
disconnect_keeps_id(W, ws, user_id, has_id) ==
  LET ac1 == IF user_id # 0 /\ user_id \in DOMAIN W.ac
               THEN IF W.ac[user_id] \ {ws} = {}
                      THEN Restrict(W.ac, DOMAIN W.ac \ {user_id})
                      ELSE [W.ac EXCEPT ![user_id] = @ \ {ws}]
               ELSE W.ac
  IN [W EXCEPT !.ac = ac1, !.w2u = Restrict(W.w2u, DOMAIN W.w2u \ {ws})]

\* disconnect, steps 3 and 4, with the user_id and ws_id read in step 1.
disconnect_after_await(W, ws, user_id, has_id) ==
  LET ac1 == IF user_id # 0 /\ user_id \in DOMAIN W.ac
               THEN IF W.ac[user_id] \ {ws} = {}
                      THEN Restrict(W.ac, DOMAIN W.ac \ {user_id})
                      ELSE [W.ac EXCEPT ![user_id] = @ \ {ws}]
               ELSE W.ac
      W1 == [W EXCEPT !.ac = ac1,
                      !.w2u = Restrict(W.w2u, DOMAIN W.w2u \ {ws}),
                      !.ids = @ \ {ws}]
  IN IF user_id # 0 /\ has_id THEN remove_user_connection(W1, user_id, ws) ELSE W1

\* A disconnect whose "await task" raises into the outer except clause: the
\* heartbeat task is popped and the call ends there.
DisconnectAbandoned(r, ws, caller) ==
  /\ heartbeat_tasks' = heartbeat_tasks \ {ws}
  /\ UNCHANGED <<active_connections, websocket_to_user, websocket_ids,
                 redisVars, received, tasks>>

\* disconnect, steps 1 and 2, for request r: with a heartbeat task the call
\* pops it and suspends; without one it runs to its end.
DisconnectCalled(r, ws, caller) ==
  IF ws \in heartbeat_tasks
    THEN /\ heartbeat_tasks' = heartbeat_tasks \ {ws}
         /\ Suspend(r, caller, ws,
                    <<IF ws \in DOMAIN websocket_to_user THEN websocket_to_user[ws] ELSE 0,
                      ws \in websocket_ids>>)
         /\ UNCHANGED <<active_connections, websocket_to_user, websocket_ids,
                        redisVars, received>>
    ELSE /\ SetWorld(disconnect(World, ws))
         /\ UNCHANGED tasks

\* connect, step 1: the connection id is stored, accept is awaited.
RegConnectBegin ==
  /\ \E ws \in DeviceSockets :
       /\ pc[ws] = "closed"
       /\ ~Disconnecting(ws)
       /\ websocket_ids' = websocket_ids \cup {ws}
       /\ pc' = [pc EXCEPT ![ws] = "accepting"]
  /\ UNCHANGED <<active_connections, websocket_to_user, heartbeat_tasks,
                 redisVars, received, alive, tasks>>
  /\ RegQuiet

\* connect, steps 2-3: accept returns and the local maps are written; or
\* accept raises, connect raises again and the finally clause of the
\* endpoint calls disconnect.
RegAccept ==
  /\ \E ws \in DeviceSockets :
       /\ pc[ws] = "accepting"
       /\ IF alive[ws]
            THEN /\ active_connections' =
                      IF SocketUser(ws) \in DOMAIN active_connections
                        THEN [active_connections EXCEPT ![SocketUser(ws)] = @ \cup {ws}]
                        ELSE Insert(active_connections, SocketUser(ws), {ws})
                 /\ websocket_to_user' = Insert(websocket_to_user, ws, SocketUser(ws))
                 /\ pc' = [pc EXCEPT ![ws] = "registered"]
                 /\ UNCHANGED <<websocket_ids, heartbeat_tasks, redisVars, received, alive>>
            ELSE /\ SetWorld(disconnect(World, ws))
                 /\ Closed(ws)
  /\ UNCHANGED tasks
  /\ RegQuiet

\* connect, steps 4-7.  A greeting that cannot be sent makes send_personal
\* call disconnect, which pops the heartbeat task it was just given and
\* suspends.
RegConnectOnline ==
  /\ \E ws \in DeviceSockets :
       /\ pc[ws] = "registered"
       /\ LET W1 == add_user_session(World, SocketUser(ws), ws)
              W2 == subscribe_all(W1, SocketUser(ws), get_user_chat_ids(SocketUser(ws)))
          IN IF alive[ws]
               THEN /\ SetWorld([W2 EXCEPT !.hb = @ \cup {ws}])
                    /\ UNCHANGED tasks
               ELSE \E r \in Requests :
                      /\ tasks[r] = Idle
                      /\ SetWorld(W2)
                      /\ Suspend(r, "send_personal", ws,
                                 <<IF ws \in DOMAIN websocket_to_user
                                     THEN websocket_to_user[ws] ELSE 0,
                                   ws \in websocket_ids>>)
       /\ pc' = [pc EXCEPT ![ws] = "online"]
  /\ UNCHANGED <<alive>>
  /\ RegQuiet

\* The endpoint starts its receive loop.
RegOpen ==
  /\ \E ws \in DeviceSockets :
       /\ pc[ws] = "online"
       /\ pc' = [pc EXCEPT ![ws] = "open"]
  /\ UNCHANGED <<regVars, redisVars, received, alive, tasks>>
  /\ RegQuiet

\* _heartbeat leaves its loop (send error, timeout or a reply that is no
\* pong) and its finally clause calls disconnect, from inside the task that
\* disconnect cancels and awaits.
HeartbeatEnds(ws) ==
  /\ \E r \in Requests :
       /\ tasks[r] = Idle
       /\ ws \in heartbeat_tasks
       /\ DisconnectCalled(r, ws, "_heartbeat")
  /\ UNCHANGED <<pc, alive>>
  /\ RegQuiet

RegHeartbeatEnds == \E ws \in DeviceSockets : HeartbeatEnds(ws)

\* send_to_user found that the send on a registered socket raises and calls
\* disconnect for it.
RegSendFails ==
  /\ \E r \in Requests, ws \in DeviceSockets :
       /\ tasks[r] = Idle
       /\ ws \in DOMAIN websocket_to_user
       /\ ~alive[ws]
       /\ DisconnectCalled(r, ws, "send_to_user")
  /\ UNCHANGED <<pc, alive>>
  /\ RegQuiet

\* The receive loop of the endpoint ends and its finally clause calls
\* disconnect.
RegEndpointLeaves ==
  /\ \E r \in Requests, ws \in DeviceSockets :
       /\ tasks[r] = Idle
       /\ pc[ws] = "open"
       /\ DisconnectCalled(r, ws, "websocket_endpoint")
       /\ IF ws \in heartbeat_tasks
            THEN pc' = [pc EXCEPT ![ws] = "closing"] /\ UNCHANGED alive
            ELSE Closed(ws)
  /\ RegQuiet

\* A suspended disconnect goes on after "await task": steps 3 and 4.
DisconnectResumes(r) ==
  /\ tasks[r].op \in {"_heartbeat", "send_to_user", "send_personal", "websocket_endpoint"}
  /\ SetWorld(disconnect_after_await(World, tasks[r].a, tasks[r].b[1], tasks[r].b[2]))
  /\ IF tasks[r].op = "websocket_endpoint"
       THEN Closed(tasks[r].a)
       ELSE UNCHANGED <<pc, alive>>
  /\ Call("disconnect", <<tasks[r].a, tasks[r].op>>, 0)
  /\ Resume(r)
  /\ RegFrame

RegDisconnectResumes == \E r \in Requests : DisconnectResumes(r)

RegKillSocket ==
  /\ \E ws \in DeviceSockets :
       /\ pc[ws] \notin {"closed", "closing"}
       /\ alive[ws]
       /\ alive' = [alive EXCEPT ![ws] = FALSE]
  /\ UNCHANGED <<regVars, redisVars, received, pc, tasks>>
  /\ RegQuiet

NextRegistry ==
  \/ RegConnectBegin
  \/ RegAccept
  \/ RegConnectOnline
  \/ RegOpen
  \/ RegHeartbeatEnds
  \/ RegSendFails
  \/ RegEndpointLeaves
  \/ RegDisconnectResumes
  \/ RegKillSocket

SpecRegistry == Init /\ [][NextRegistry]_vars

\* A connect or a disconnect of the socket is between two of its awaits.
InProgress(ws) ==
  pc[ws] \in {"accepting", "registered", "closing"} \/ Disconnecting(ws)

SpecRegistryFair ==
  /\ SpecRegistry
  /\ \A ws \in DeviceSockets : SF_vars(HeartbeatEnds(ws) /\ ~alive[ws])
  /\ \A r \in Requests : WF_vars(DisconnectResumes(r))

MaxInbox == 2

FrmQuiet ==
  UNCHANGED <<dbVars, busVars, pending, drain_log, chat_rooms, refresh_tokens, issued,
              lsnVars, presVars, chat_reads, subVars>>

\* _heartbeat: the sleep is over, the ping is sent, the client sends its pong.
FrmPing ==
  /\ \E ws \in DeviceSockets :
       /\ ws \in heartbeat_tasks
       /\ hb_wait[ws] = "idle"
       /\ Len(inbox[ws]) < MaxInbox
       /\ hb_wait' = [hb_wait EXCEPT ![ws] = "pinged"]
       /\ inbox' = [inbox EXCEPT ![ws] = Append(@, "pong")]
  /\ UNCHANGED <<regVars, redisVars, received, pc, alive, tasks, ret>>
  /\ FrmQuiet

\* The client sends a frame of its own.
FrmClientSends ==
  /\ \E ws \in DeviceSockets :
       /\ pc[ws] = "open"
       /\ Len(inbox[ws]) < MaxInbox
       /\ inbox' = [inbox EXCEPT ![ws] = Append(@, "typing")]
  /\ UNCHANGED <<regVars, redisVars, received, pc, alive, tasks, ret, hb_wait>>
  /\ FrmQuiet

\* _heartbeat: receive_json returns the next frame of the socket.  A pong
\* lets the loop go on; any other frame ends the loop, and the finally
\* clause disconnects the socket.
FrmHeartbeatReads ==
  /\ \E ws \in DeviceSockets :
       /\ ws \in heartbeat_tasks
       /\ hb_wait[ws] = "pinged"
       /\ inbox[ws] # <<>>
       /\ inbox' = [inbox EXCEPT ![ws] = Tail(@)]
       /\ hb_wait' = [hb_wait EXCEPT ![ws] = "idle"]
       /\ IF Head(inbox[ws]) = "pong"
            THEN UNCHANGED <<regVars, redisVars, received, tasks>>
            ELSE \E r \in Requests :
                   tasks[r] = Idle /\ DisconnectCalled(r, ws, "_heartbeat")
       /\ Call("_heartbeat", <<ws, Head(inbox[ws])>>, 0)
  /\ UNCHANGED <<pc, alive>>
  /\ FrmQuiet

\* _heartbeat: five seconds passed and receive_json returned nothing,
\* because the frames of the socket were read elsewhere.
FrmHeartbeatTimeout ==
  /\ \E ws \in DeviceSockets :
       /\ ws \in heartbeat_tasks
       /\ hb_wait[ws] = "pinged"
       /\ inbox[ws] = <<>>
       /\ hb_wait' = [hb_wait EXCEPT ![ws] = "idle"]
       /\ \E r \in Requests :
            tasks[r] = Idle /\ DisconnectCalled(r, ws, "_heartbeat")
       /\ Call("_heartbeat", <<ws, "timeout">>, 0)
  /\ UNCHANGED <<pc, alive, inbox>>
  /\ FrmQuiet

\* handle_incoming_message: receive_json returns the next frame of the
\* socket; a pong is skipped, a typing frame is handled.
FrmLoopReads ==
  /\ \E ws \in DeviceSockets :
       /\ pc[ws] = "open"
       /\ ws \in DOMAIN websocket_to_user
       /\ inbox[ws] # <<>>
       /\ inbox' = [inbox EXCEPT ![ws] = Tail(@)]
       /\ Call("handle_incoming_message", <<ws, Head(inbox[ws])>>, 0)
  /\ UNCHANGED <<regVars, redisVars, received, pc, alive, tasks, hb_wait>>
  /\ FrmQuiet

NextFrames ==
  \/ RegConnectBegin
  \/ RegAccept
  \/ RegConnectOnline
  \/ RegOpen
  \/ RegDisconnectResumes
  \/ FrmPing
  \/ FrmClientSends
  \/ FrmHeartbeatReads
  \/ FrmHeartbeatTimeout
  \/ FrmLoopReads

SpecFrames == Init /\ [][NextFrames]_vars

\* C38: the socket of a client that answers every ping with a pong in time
\* keeps its heartbeat: the heartbeat never ends on a timeout or on a frame
\* that is no pong.
PongKeepsConnection ==
  ret.op = "_heartbeat" => ret.args[2] = "pong"

\* ---------------------------------------------------------------- presence
\* RedisManager.add_user_session and remove_user_connection for user 2, cut
\* at their awaits.  sessions[u] is the set user:sessions:{u}, user_online
\* the users whose key user:online:{u} exists, _online_cache the local cache.
PresenceUser == 2

SessionIds == {2, 4}

PresQuiet ==
  UNCHANGED <<dbVars, regVars, chat_subscribers, offline, busVars, sockVars, received, ret,
              chat_rooms, refresh_tokens, issued, lsnVars, chat_reads, frmVars, subVars>>

\* _set_user_online: setex of user:online:{uid}, cache entry True.
_set_user_online(user_id) ==
  /\ user_online' = user_online \cup {user_id}
  /\ _online_cache' = Insert(_online_cache, user_id, TRUE)

\* _set_user_offline: delete of user:online:{uid}, cache entry False.
_set_user_offline(user_id) ==
  /\ user_online' = user_online \ {user_id}
  /\ _online_cache' = Insert(_online_cache, user_id, FALSE)

\* add_user_session: sadd and expire.
PresAddSession ==
  /\ \E r \in Requests, session_id \in SessionIds :
       /\ tasks[r] = Idle
       /\ sessions' = [sessions EXCEPT ![PresenceUser] = @ \cup {session_id}]
       /\ Suspend(r, "add_user_session", PresenceUser, session_id)
  /\ UNCHANGED presVars
  /\ PresQuiet

\* add_user_session: the call of _set_user_online.
PresSetOnline ==
  /\ \E r \in Requests :
       /\ tasks[r].op = "add_user_session"
       /\ _set_user_online(tasks[r].a)
       /\ Resume(r)
  /\ UNCHANGED sessions
  /\ PresQuiet

\* remove_user_connection: srem.
PresRemove ==
  /\ \E r \in Requests, session_id \in SessionIds :
       /\ tasks[r] = Idle
       /\ session_id \in sessions[PresenceUser]
       /\ sessions' = [sessions EXCEPT ![PresenceUser] = @ \ {session_id}]
       /\ Suspend(r, "remove_user_connection", PresenceUser, session_id)
  /\ UNCHANGED presVars
  /\ PresQuiet

\* remove_user_connection: scard and the test of what remains.
PresScard ==
  /\ \E r \in Requests :
       /\ tasks[r].op = "remove_user_connection"
       /\ IF Cardinality(sessions[tasks[r].a]) = 0
            THEN Suspend(r, "_set_user_offline", tasks[r].a, 0)
            ELSE Resume(r)
  /\ UNCHANGED <<sessions, presVars>>
  /\ PresQuiet

\* remove_user_connection: the call of _set_user_offline.
PresSetOffline ==
  /\ \E r \in Requests :
       /\ tasks[r].op = "_set_user_offline"
       /\ _set_user_offline(tasks[r].a)
       /\ Resume(r)
  /\ UNCHANGED sessions
  /\ PresQuiet

NextPresence ==
  \/ PresAddSession
  \/ PresSetOnline
  \/ PresRemove
  \/ PresScard
  \/ PresSetOffline

SpecPresence == Init /\ [][NextPresence]_vars

\* C39: with no add_user_session or remove_user_connection in progress, a
\* user whose session set is not empty is flagged online, in Redis and in the
\* local cache.
OnlineWhileSessions ==
  ((\A r \in Requests : tasks[r] = Idle) /\ sessions[PresenceUser] # {}) =>
    /\ PresenceUser \in user_online
    /\ PresenceUser \in DOMAIN _online_cache
    /\ _online_cache[PresenceUser]

\* ------------------------------------------------- DynamicRedisSubscriber
\* A channel is <<kind, id>>: <<"message", c>> is chat:{c}:message,
\* <<"messages", c>> chat:{c}:messages, <<"updates", c>> chat:{c}:updates,
\* <<"notifications", u>> user:{u}:notifications and <<"profile", u>>
\* user:{u}:updates.  redis_channels are the channels the pubsub connection
\* is subscribed to.  The three public methods hold self._lock from their
\* first line to their last, so each is one step.
SubQuiet ==
  UNCHANGED <<dbVars, regVars, redisVars, busVars, sockVars, received, ret, svcVars,
              lsnVars, presVars, chat_reads, frmVars>>

Subscriber ==
  [cs |-> channel_subscriptions, us |-> user_subscriptions, rc |-> redis_channels]

SetSubscriber(S) ==
  /\ channel_subscriptions' = S.cs
  /\ user_subscriptions' = S.us
  /\ redis_channels' = S.rc

\* _add_user_to_channel: the channel gets its set; the test for the user's
\* set looks the user up among the channels, does not find it and gives the
\* user a new empty set; the user is added to the channel's set; the
\* channel is then added to channel_subscriptions[user_id], which raises
\* KeyError: the except clause returns False before pubsub.subscribe.
_add_user_to_channel(S, user_id, channel) ==
  LET cs1 == IF channel \in DOMAIN S.cs THEN S.cs ELSE Insert(S.cs, channel, {})
      us1 == Insert(S.us, user_id, {})
  IN [S EXCEPT !.cs = [cs1 EXCEPT ![channel] = @ \cup {user_id}], !.us = us1]

RECURSIVE add_user_to_channels(_, _, _)
add_user_to_channels(S, user_id, channels) ==
  IF channels = {} THEN S
  ELSE LET channel == CHOOSE c \in channels : TRUE
       IN add_user_to_channels(_add_user_to_channel(S, user_id, channel), user_id,
                               channels \ {channel})

\* subscribe_user: the two channels of each of the user's chats, then the
\* user's notification and profile channels.
subscribe_user(S, user_id) ==
  add_user_to_channels(S, user_id,
    {<<"message", c>> : c \in get_user_chat_ids(user_id)}
      \cup {<<"updates", c>> : c \in get_user_chat_ids(user_id)}
      \cup {<<"notifications", user_id>>, <<"profile", user_id>>})

\* unsubscribe_user: the user's set is popped; for each of its channels the
\* loop looks the channel up in user_subscriptions, where no channel is a
\* key, so no channel set is touched.
unsubscribe_user(S, user_id) ==
  IF user_id \notin DOMAIN S.us THEN S
  ELSE [S EXCEPT !.us = Restrict(S.us, DOMAIN S.us \ {user_id})]

\* remove_user_from_chat, one channel.
remove_user_from_channel(S, user_id, channel) ==
  IF channel \notin DOMAIN S.cs THEN S
  ELSE LET us1 == IF user_id \in DOMAIN S.us
                    THEN [S.us EXCEPT ![user_id] = @ \ {channel}]
                    ELSE S.us
       IN IF S.cs[channel] \ {user_id} = {}
            THEN [cs |-> Restrict(S.cs, DOMAIN S.cs \ {channel}), us |-> us1,
                  rc |-> S.rc \ {channel}]
            ELSE [S EXCEPT !.cs[channel] = @ \ {user_id}, !.us = us1]

\* remove_user_from_chat: chat:{id}:messages and chat:{id}:updates.
remove_user_from_chat(S, user_id, chat_id) ==
  remove_user_from_channel(remove_user_from_channel(S, user_id, <<"messages", chat_id>>),
                           user_id, <<"updates", chat_id>>)

SubSubscribeUser ==
  /\ \E user_id \in Users : SetSubscriber(subscribe_user(Subscriber, user_id))
  /\ SubQuiet

SubUnsubscribeUser ==
  /\ \E user_id \in Users : SetSubscriber(unsubscribe_user(Subscriber, user_id))
  /\ SubQuiet

SubRemoveUserFromChat ==
  /\ \E user_id \in Users, chat_id \in Chats :
       SetSubscriber(remove_user_from_chat(Subscriber, user_id, chat_id))
  /\ SubQuiet

NextSubscriber ==
  \/ SubSubscribeUser
  \/ SubUnsubscribeUser
  \/ SubRemoveUserFromChat

SpecSubscriber == Init /\ [][NextSubscriber]_vars

\* C40: a user is in channel_subscriptions[c] exactly when c is in
\* user_subscriptions[user], no channel maps to an empty set, and the
\* channels subscribed in Redis are the channels of channel_subscriptions.
SubscriptionMapsAgree ==
  /\ \A c \in DOMAIN channel_subscriptions :
       /\ channel_subscriptions[c] # {}
       /\ \A u \in channel_subscriptions[c] :
            u \in DOMAIN user_subscriptions /\ c \in user_subscriptions[u]
  /\ \A u \in DOMAIN user_subscriptions :
       \A c \in user_subscriptions[u] :
         c \in DOMAIN channel_subscriptions /\ u \in channel_subscriptions[c]
  /\ redis_channels = DOMAIN channel_subscriptions

====
